---- MODULE Spec2Model ----
(***************************************************************************)
(* gocire: the span partitioner (internal/TokenInfo.go) and the document   *)
(* assembler (internal/MDXGenerator.go), with the text extractor they use. *)
(*                                                                         *)
(* Text is a sequence of one-character strings; "\n" is the newline.       *)
(* A position is [Line, Character] (scip.Position), a span is [Start, End] *)
(* (scip.Range).  Go's 0-based indices are kept: tokens[i] in the source   *)
(* is tokens[i + 1] here.                                                  *)
(***************************************************************************)
EXTENDS Integers, Sequences, FiniteSets, TLC

VARIABLES
    pc,            \* position of the program
    tokens,        \* MergeSplitTokens: the (sorted) input token list
    result,        \* MergeSplitTokens: result
    activeTokens,  \* MergeSplitTokens: activeTokens
    curPos,        \* MergeSplitTokens: curPos
    index,         \* MergeSplitTokens: index
    splitErr,      \* MergeSplitTokens: the error it returned, if any
    sourceLines,   \* MDXGenerator.sourceLines
    comments,      \* GenerateMDX: comments (m.comments)
    segments,      \* GenerateMDX: its tokens argument
    currentPos,    \* GenerateMDX: currentPos
    tokenIdx,      \* GenerateMDX: tokenIdx
    commentIdx,    \* GenerateMDX: commentIdx
    inCodeBlock,   \* GenerateMDX: inCodeBlock
    sb,            \* GenerateMDX: the pieces written to the string builder
    hist,          \* GenerateMDX: history of the steps of the loop
    extSpan,       \* getSourceFromSpan called on its own: its span argument
    extText,       \* getSourceFromSpan called on its own: the text returned
    unsorted,      \* SortTokens: the list as it was before the call
    useScip,       \* main: scipAnalyzer != nil
    useLang,       \* main: *lang != ""
    goPc,          \* main: position of each analyzer goroutine
    outcome,       \* main: how each analysis ended
    wg,            \* main: the WaitGroup's counter
    errs,          \* main: errs
    scipTokens,    \* main: scipTokens
    highlightTokens,  \* main: highlightTokens
    commentTokens, \* main: commentTokens
    written,       \* main: the output file has been written
    stderr,        \* main: the lines written to os.Stderr
    mu,            \* main: the goroutine that holds the mutex mu, or "free"
    appendArg,     \* main: errs as each goroutine read it in addError
    doneOrder,     \* main: the analyzers in the order their goroutines returned
    cfg,           \* Config: the configuration ParseConfig returned
    outPath,       \* Pipeline.Run: outPath, the result of ResolveOutputPath
    sourceContent, \* isCommentStandalone: its sourceContent argument
    startByte,     \* isCommentStandalone: its startByte argument
    standalone,    \* isCommentStandalone: the value returned
    lspMu,         \* lsp.Client: who holds c.mu, or "free"
    activeWork,    \* lsp.Client: the keys of c.activeWork
    hPc,           \* lsp.Client: position of the call of handleProgress
    hMsg,          \* lsp.Client: the params of the call of handleProgress
    wfiPc,         \* lsp.Client: position of WaitForIndexing
    waiterPc,      \* lsp.Client: position of the goroutine WaitForIndexing starts
    done,          \* lsp.Client: the channel done is closed
    timerFired,    \* lsp.Client: the channel of time.After(timeout) is ready
    ctxDone,       \* lsp.Client: c.ctx is cancelled
    lspRet,        \* lsp.Client: what WaitForIndexing returned
    sawEmpty,      \* lsp.Client: the goroutine found activeWork empty
    wasWoken       \* lsp.Client: a Broadcast woke the goroutine

splitVars == <<tokens, result, activeTokens, curPos, index, splitErr>>
mdxInputs == <<sourceLines, comments>>
mdxVars == <<segments, currentPos, tokenIdx, commentIdx, inCodeBlock, sb, hist>>
callVars == <<cfg, outPath, sourceContent, startByte, standalone>>
lspVars == <<lspMu, activeWork, hPc, hMsg, wfiPc, waiterPc, done, timerFired, ctxDone,
             lspRet, sawEmpty, wasWoken>>
extVars == <<extSpan, extText, unsorted, callVars, lspVars>>
mainVars == <<useScip, useLang, goPc, outcome, wg, errs, scipTokens, highlightTokens,
              commentTokens, written, stderr, mu, appendArg, doneOrder>>
vars == <<pc, splitVars, mdxInputs, mdxVars, extVars, mainVars>>

----------------------------------------------------------------------------
(* Bounds *)

MaxLine == 1      \* positions have Line in 0..MaxLine
MaxChar == 1      \* positions have Character in 0..MaxChar
MaxTokens == 3    \* longest token list given to MergeSplitTokens
MaxPipeTokens == 2  \* longest token list of a pipeline run
MaxComments == 1    \* longest comment list
MaxSegments == 2    \* longest segment list given to GenerateMDX directly
MaxBufLines == 2    \* most lines of a buffer given to GenerateMDX directly
MaxLineLen == 1     \* length of those lines
MaxAnyTokens == 3   \* longest token list of any shape given to MergeSplitTokens
MaxExtLines == 3    \* most lines of a buffer given to getSourceFromSpan directly
MaxExtLen == 2      \* longest line of such a buffer
MaxSortTokens == 3  \* longest token list given to SortTokens directly
MaxDirDepth == 2    \* most directories above the source file
MaxMdTokens == 2    \* longest token list given to generateMarkdownCode
MaxSrcLen == 4      \* longest source given to isCommentStandalone
MaxWideChar == 2    \* positions past the line ends have Character in 0..MaxWideChar
MaxWorkTokens == 2  \* progress tokens are 1..MaxWorkTokens, as numbers or as strings

----------------------------------------------------------------------------
(* Positions and spans *)

Pos(l, c) == [Line |-> l, Character |-> c]

Range(s, e) == [Start |-> s, End |-> e]

\* scip.Position.Compare: lexicographic on (Line, Character)
Compare(a, b) ==
    IF a.Line < b.Line THEN -1
    ELSE IF a.Line > b.Line THEN 1
    ELSE IF a.Character < b.Character THEN -1
    ELSE IF a.Character > b.Character THEN 1
    ELSE 0

\* scip.Position.Less
Less(a, b) == Compare(a, b) < 0

Positions == {Pos(l, c) : l \in 0..MaxLine, c \in 0..MaxChar}

ValidSpans ==
    {sp \in {Range(s, e) : s \in Positions, e \in Positions} : Compare(sp.Start, sp.End) <= 0}

----------------------------------------------------------------------------
(* Tokens *)

TokenInfo(sym, isRef, isDef, class, inlay, span) ==
    [Symbol |-> sym, IsReference |-> isRef, IsDefinition |-> isDef,
     HighlightClass |-> class, InlayText |-> inlay, Span |-> span]

\* the annotations the analyzers attach in this model
Annotations ==
    { [Symbol |-> "a", IsReference |-> FALSE, IsDefinition |-> TRUE,
       HighlightClass |-> "function", InlayText |-> <<"d1">>],
      [Symbol |-> "b", IsReference |-> TRUE, IsDefinition |-> FALSE,
       HighlightClass |-> "variable", InlayText |-> <<"d2">>],
      [Symbol |-> "", IsReference |-> FALSE, IsDefinition |-> FALSE,
       HighlightClass |-> "", InlayText |-> <<>>] }

WithSpan(a, span) ==
    TokenInfo(a.Symbol, a.IsReference, a.IsDefinition, a.HighlightClass, a.InlayText, span)

ValidTokens == {WithSpan(a, sp) : a \in Annotations, sp \in ValidSpans}

\* the comparison with the later end first among equal starts
SortedBefore_endDescending(t, u) ==
    LET s == Compare(t.Span.Start, u.Span.Start)
    IN IF s # 0 THEN s < 0 ELSE Less(u.Span.End, t.Span.End)

\* the order SortTokens establishes: start ascending, then end ascending
SortedBefore(t, u) ==
    LET s == Compare(t.Span.Start, u.Span.Start)
    IN IF s # 0 THEN s < 0 ELSE Less(t.Span.End, u.Span.End)

IsSorted(toks) ==
    \A i \in 1..Len(toks) - 1 : ~SortedBefore(toks[i + 1], toks[i])

\* consecutive tokens do not overlap (for a sorted list of valid spans this
\* is pairwise non-overlap)
NonOverlapping(toks) ==
    \A i \in 1..Len(toks) - 1 : Compare(toks[i].Span.End, toks[i + 1].Span.Start) <= 0

SeqsUpTo(S, n) == UNION {[1..k -> S] : k \in 0..n}

SortedTokenLists == {toks \in SeqsUpTo(ValidTokens, MaxTokens) : IsSorted(toks)}

----------------------------------------------------------------------------
(* MergeSplitTokens and its helpers *)

\* findNextEnd: the earliest End among the active tokens
RECURSIVE findNextEndFrom(_, _, _)
findNextEndFrom(activeToks, i, earliest) ==
    IF i > Len(activeToks) THEN earliest
    ELSE findNextEndFrom(activeToks, i + 1,
            IF Compare(activeToks[i].Span.End, earliest) < 0
            THEN activeToks[i].Span.End ELSE earliest)

findNextEnd(activeToks) == findNextEndFrom(activeToks, 1, activeToks[1].Span.End)

\* findNextSplit without the comparison against the earliest active end
findNextSplit_startsFirst(toks, idx, activeToks) ==
    IF idx < Len(toks) THEN [pos |-> toks[idx + 1].Span.Start, err |-> FALSE]
    ELSE IF Len(activeToks) > 0 THEN
        [pos |-> findNextEnd(activeToks), err |-> FALSE]
    ELSE [pos |-> [Line |-> 0, Character |-> 0], err |-> TRUE]

\* findNextSplit: next token start, or the earliest end of an active token
findNextSplit(toks, idx, activeToks) ==
    IF idx < Len(toks) THEN
        LET nextPos == toks[idx + 1].Span.Start IN
        IF Len(activeToks) > 0 /\ Compare(findNextEnd(activeToks), nextPos) < 0
        THEN [pos |-> findNextEnd(activeToks), err |-> FALSE]
        ELSE [pos |-> nextPos, err |-> FALSE]
    ELSE IF Len(activeToks) > 0 THEN
        [pos |-> findNextEnd(activeToks), err |-> FALSE]
    ELSE [pos |-> Pos(0, 0), err |-> TRUE]

\* the first loop of processSplitAtPosition: activate the tokens starting at pos
RECURSIVE Activate(_, _, _, _)
Activate(pos, toks, idx, activeToks) ==
    IF idx >= Len(toks) \/ Compare(toks[idx + 1].Span.Start, pos) # 0
    THEN [index |-> idx, active |-> activeToks]
    ELSE Activate(pos, toks, idx + 1, Append(activeToks, toks[idx + 1]))

\* the second loop of processSplitAtPosition keeping every token
Deactivate_keepAll(pos, activeToks) == activeToks

\* the second loop of processSplitAtPosition returning the survivors last first
Deactivate_lastFirst(pos, activeToks) ==
    LET kept == SelectSeq(activeToks, LAMBDA t : Compare(t.Span.End, pos) # 0)
    IN [i \in 1..Len(kept) |-> kept[Len(kept) + 1 - i]]

\* the second loop of processSplitAtPosition: drop the tokens ending at pos
Deactivate(pos, activeToks) ==
    SelectSeq(activeToks, LAMBDA t : Compare(t.Span.End, pos) # 0)

\* processSplitAtPosition with its filter run in the array of the input list
processSplitAtPosition_filterInput(pos, toks, idx, activeToks) ==
    LET a == Activate(pos, toks, idx, activeToks)
        kept == Deactivate(pos, a.active)
    IN [index |-> a.index, active |-> kept,
        tokens |-> [i \in 1..Len(toks) |-> IF i <= Len(kept) THEN kept[i] ELSE toks[i]]]

\* processSplitAtPosition: the new index and active list; the appends and the
\* filter write the array of the active list, which starts as a list of its
\* own, so the array of the input list is as it was (field tokens)
processSplitAtPosition(pos, toks, idx, activeToks) ==
    LET a == Activate(pos, toks, idx, activeToks)
    IN [index |-> a.index, active |-> Deactivate(pos, a.active), tokens |-> toks]

\* the merge with an empty Symbol or HighlightClass overriding an earlier value
RECURSIVE MergeInto_emptyOverrides(_, _, _)
MergeInto_emptyOverrides(acc, activeToks, i) ==
    IF i > Len(activeToks) THEN acc
    ELSE LET t == activeToks[i] IN
         MergeInto_emptyOverrides(
            [acc EXCEPT
                !.Symbol = t.Symbol,
                !.HighlightClass = t.HighlightClass,
                !.InlayText = IF Len(t.InlayText) > 0 THEN @ \o t.InlayText ELSE @,
                !.IsReference = @ \/ t.IsReference,
                !.IsDefinition = @ \/ t.IsDefinition],
            activeToks, i + 1)

\* the loop of createSegment: fold the active tokens, in order, into the result
RECURSIVE MergeInto(_, _, _)
MergeInto(acc, activeToks, i) ==
    IF i > Len(activeToks) THEN acc
    ELSE LET t == activeToks[i] IN
         MergeInto(
            [acc EXCEPT
                !.Symbol = IF t.Symbol # "" THEN t.Symbol ELSE @,
                !.HighlightClass = IF t.HighlightClass # "" THEN t.HighlightClass ELSE @,
                !.InlayText = IF Len(t.InlayText) > 0 THEN @ \o t.InlayText ELSE @,
                !.IsReference = @ \/ t.IsReference,
                !.IsDefinition = @ \/ t.IsDefinition],
            activeToks, i + 1)

\* createSegment without its nil result for an empty active list
createSegment_gapSegment(start, end, activeToks) ==
    <<MergeInto(TokenInfo("", FALSE, FALSE, "", <<>>, Range(start, end)), activeToks, 1)>>

\* createSegment: merge the active tokens' properties over [start, end);
\* the empty sequence stands for the nil it returns when nothing is active
createSegment(start, end, activeToks) ==
    IF Len(activeToks) = 0 THEN <<>>
    ELSE <<MergeInto(TokenInfo("", FALSE, FALSE, "", <<>>, Range(start, end)),
                     activeToks, 1)>>

\* the state of the loop of MergeSplitTokens
LoopState(res, act, cur, idx, err) ==
    [result |-> res, activeTokens |-> act, curPos |-> cur, index |-> idx, err |-> err]

\* the exit test one token late
LoopExit_pastEnd(toks, st) == st.index > Len(toks) /\ Len(st.activeTokens) = 0

\* the loop's exit test
LoopExit(toks, st) == st.index >= Len(toks) /\ Len(st.activeTokens) = 0

\* the iteration with the segment created after the activation at nextSplit
LoopBody_activateBeforeEmit(toks, st) ==
    LET ns == findNextSplit(toks, st.index, st.activeTokens) IN
    IF ns.err THEN [st EXCEPT !.err = TRUE]
    ELSE
        LET seg == IF Compare(st.curPos, ns.pos) < 0
                   THEN createSegment(st.curPos, ns.pos,
                            Activate(ns.pos, toks, st.index, st.activeTokens).active)
                   ELSE <<>>
            ps == processSplitAtPosition(ns.pos, toks, st.index, st.activeTokens)
        IN LoopState(st.result \o seg, ps.active, ns.pos, ps.index, FALSE)

\* the iteration without its curPos = nextSplit
LoopBody_staleCurPos(toks, st) ==
    LET ns == findNextSplit(toks, st.index, st.activeTokens) IN
    IF ns.err THEN [st EXCEPT !.err = TRUE]
    ELSE
        LET seg == IF Compare(st.curPos, ns.pos) < 0
                   THEN createSegment(st.curPos, ns.pos, st.activeTokens)
                   ELSE <<>>
            ps == processSplitAtPosition(ns.pos, toks, st.index, st.activeTokens)
        IN LoopState(st.result \o seg, ps.active, st.curPos, ps.index, FALSE)

\* one iteration of the loop of MergeSplitTokens, past the exit test
LoopBody(toks, st) ==
    LET ns == findNextSplit(toks, st.index, st.activeTokens) IN
    IF ns.err THEN [st EXCEPT !.err = TRUE]
    ELSE
        LET seg == IF Compare(st.curPos, ns.pos) < 0
                   THEN createSegment(st.curPos, ns.pos, st.activeTokens)
                   ELSE <<>>
            ps == processSplitAtPosition(ns.pos, toks, st.index, st.activeTokens)
        IN LoopState(st.result \o seg, ps.active, ns.pos, ps.index, FALSE)

RECURSIVE RunLoop(_, _)
RunLoop(toks, st) ==
    IF st.err THEN <<>>
    ELSE IF LoopExit(toks, st) THEN st.result
    ELSE RunLoop(toks, LoopBody(toks, st))

\* MergeSplitTokens as a function of its argument (the result on success)
MergeSplitTokens(toks) ==
    IF Len(toks) = 0 THEN <<>>
    ELSE RunLoop(toks, LoopState(<<>>, <<>>, toks[1].Span.Start, 0, FALSE))

----------------------------------------------------------------------------
(* Text and the text extractor *)

\* unicode.IsSpace, on the characters of this model
IsSpace(ch) == ch \in {" ", "\n", "\t", "\r"}

\* the number of bytes of a character in UTF-8; "E" stands for a rune of two
\* bytes, such as U+00E9
ByteWidth(ch) == IF ch = "E" THEN 2 ELSE 1

RECURSIVE ByteLen(_)
ByteLen(line) == IF line = <<>> THEN 0 ELSE ByteWidth(Head(line)) + ByteLen(Tail(line))

\* strings.TrimLeftFunc(text, unicode.IsSpace)
RECURSIVE TrimLeft(_)
TrimLeft(text) ==
    IF text = <<>> THEN <<>>
    ELSE IF IsSpace(Head(text)) THEN TrimLeft(Tail(text))
    ELSE text

\* strings.TrimRightFunc(text, unicode.IsSpace)
RECURSIVE TrimRight(_)
TrimRight(text) ==
    IF text = <<>> THEN <<>>
    ELSE IF IsSpace(text[Len(text)]) THEN TrimRight(SubSeq(text, 1, Len(text) - 1))
    ELSE text

Max(a, b) == IF a > b THEN a ELSE b

Min(a, b) == IF a < b THEN a ELSE b

\* the slice taken with from and to counted in bytes of the UTF-8 string
Slice_byBytes(runes, from, to) ==
    LET at(i) == ByteLen(SubSeq(runes, 1, i - 1))
        idx == {i \in 1..Len(runes) : from <= at(i) /\ at(i) < to}
    IN IF idx = {} THEN <<>>
       ELSE SubSeq(runes, CHOOSE i \in idx : \A j \in idx : i <= j,
                          CHOOSE i \in idx : \A j \in idx : j <= i)

\* runes[from:to] of Go, 0-based and half-open
Slice(runes, from, to) == SubSeq(runes, from + 1, to)

\* the middle lines of a multi-line span, each followed by a newline
RECURSIVE MiddleLines(_, _, _)
MiddleLines(lines, i, endLine) ==
    IF i >= endLine THEN <<>>
    ELSE (IF i < Len(lines) THEN lines[i + 1] \o <<"\n">> ELSE <<>>)
         \o MiddleLines(lines, i + 1, endLine)

\* getSourceFromSpan without the newline after the first line of a span
getSourceFromSpan_noNewline(lines, s) ==
    LET n == Len(lines)
        startLine == s.Start.Line
        endLine == IF s.End.Line >= n THEN n - 1 ELSE s.End.Line
    IN
    IF startLine < 0 \/ s.End.Line < 0 \/ startLine >= n THEN <<>>
    ELSE IF startLine = endLine THEN
        LET runes == lines[startLine + 1]
            startChar == IF s.Start.Character < 0 \/ s.Start.Character > Len(runes)
                         THEN 0 ELSE s.Start.Character
            endChar == IF s.End.Character < 0 \/ s.End.Character > Len(runes)
                       THEN Len(runes) ELSE s.End.Character
        IN IF endChar <= startChar THEN <<>> ELSE Slice(runes, startChar, endChar)
    ELSE
        LET firstRunes == lines[startLine + 1]
            startChar == Max(s.Start.Character, 0)
            first == IF startChar <= Len(firstRunes)
                     THEN Slice(firstRunes, startChar, Len(firstRunes)) ELSE <<>>
            middle == MiddleLines(lines, startLine + 1, endLine)
            last == IF endLine < n
                    THEN LET lastRunes == lines[endLine + 1]
                             endChar == Min(Max(s.End.Character, 0), Len(lastRunes))
                         IN IF endChar > 0 THEN Slice(lastRunes, 0, endChar) ELSE <<>>
                    ELSE <<>>
        IN first \o middle \o last

\* getSourceFromSpan: the text of the buffer under span s
getSourceFromSpan(lines, s) ==
    LET n == Len(lines)
        startLine == s.Start.Line
        endLine == IF s.End.Line >= n THEN n - 1 ELSE s.End.Line
    IN
    IF startLine < 0 \/ s.End.Line < 0 \/ startLine >= n THEN <<>>
    ELSE IF startLine = endLine THEN
        LET runes == lines[startLine + 1]
            startChar == IF s.Start.Character < 0 \/ s.Start.Character > Len(runes)
                         THEN 0 ELSE s.Start.Character
            endChar == IF s.End.Character < 0 \/ s.End.Character > Len(runes)
                       THEN Len(runes) ELSE s.End.Character
        IN IF endChar <= startChar THEN <<>> ELSE Slice(runes, startChar, endChar)
    ELSE
        LET firstRunes == lines[startLine + 1]
            startChar == Max(s.Start.Character, 0)
            first == (IF startChar <= Len(firstRunes)
                      THEN Slice(firstRunes, startChar, Len(firstRunes)) ELSE <<>>)
                     \o <<"\n">>
            middle == MiddleLines(lines, startLine + 1, endLine)
            last == IF endLine < n
                    THEN LET lastRunes == lines[endLine + 1]
                             endChar == Min(Max(s.End.Character, 0), Len(lastRunes))
                         IN IF endChar > 0 THEN Slice(lastRunes, 0, endChar) ELSE <<>>
                    ELSE <<>>
        IN first \o middle \o last

----------------------------------------------------------------------------
(* GenerateMDX *)

CommentInfo(content, span) == [Content |-> content, Span |-> span]

\* the "infinity" of getNextTokenStart and getNextCommentStart
Infinity == Pos(999999, 999999)

\* fileEndPos: the end of the last line, (0, 0) for an empty file
FileEndPos(lines) ==
    IF Len(lines) > 0 THEN Pos(Len(lines) - 1, Len(lines[Len(lines)])) ELSE Pos(0, 0)

getNextTokenStart(segs, ti) ==
    IF ti < Len(segs) THEN segs[ti + 1].Span.Start ELSE Infinity

getNextCommentStart(cmts, ci) ==
    IF ci < Len(cmts) THEN cmts[ci + 1].Span.Start ELSE Infinity

\* the end of the current gap
GapEnd(lines, segs, cmts, st) ==
    LET nextTokenStart == getNextTokenStart(segs, st.tokenIdx)
        nextCommentStart == getNextCommentStart(cmts, st.commentIdx)
        g1 == IF Compare(nextTokenStart, FileEndPos(lines)) < 0
              THEN nextTokenStart ELSE FileEndPos(lines)
    IN IF Compare(nextCommentStart, g1) < 0 THEN nextCommentStart ELSE g1

\* what the string builder receives; the code's markup and escaping are left
\* out, each piece keeps the buffer text it was made from
WrapperStart == [kind |-> "CodeWrapperStart"]

WrapperEnd == [kind |-> "CodeWrapperEnd"]

LiteralRun(text) == [kind |-> "literal", text |-> text]

\* the element written for a token with the reference tested before the
\* definition
outputTokenJSX_referenceFirst(tok) ==
    LET cssClass == tok.HighlightClass
        inner == IF tok.IsReference THEN
                     [elem |-> "a", id |-> "", href |-> tok.Symbol, className |-> cssClass]
                 ELSE IF tok.IsDefinition THEN
                     [elem |-> "span", id |-> tok.Symbol, href |-> "", className |-> cssClass]
                 ELSE IF cssClass # "" THEN
                     [elem |-> "span", id |-> "", href |-> "", className |-> cssClass]
                 ELSE
                     [elem |-> "span", id |-> "", href |-> "", className |-> "cire_text"]
    IN [inner |-> inner, tooltip |-> tok.InlayText]

\* outputTokenJSX: the element written for a token, without its text: a span
\* with an id for a definition, else a link for a reference, else a span of
\* the highlight class, else the span of plain text; a token with
\* documentation gets a Tooltip around it
outputTokenJSX(tok) ==
    LET cssClass == tok.HighlightClass
        inner == IF tok.IsDefinition THEN
                     [elem |-> "span", id |-> tok.Symbol, href |-> "", className |-> cssClass]
                 ELSE IF tok.IsReference THEN
                     [elem |-> "a", id |-> "", href |-> tok.Symbol, className |-> cssClass]
                 ELSE IF cssClass # "" THEN
                     [elem |-> "span", id |-> "", href |-> "", className |-> cssClass]
                 ELSE
                     [elem |-> "span", id |-> "", href |-> "", className |-> "cire_text"]
    IN [inner |-> inner, tooltip |-> tok.InlayText]

TokenRun(tok, text) ==
    [kind |-> "token", text |-> text, tok |-> tok, jsx |-> outputTokenJSX(tok)]

Prose(content) == [kind |-> "prose", text |-> content]

\* the state of the loop of GenerateMDX; hist is a history of the steps taken
MDXState(cur, ti, ci, inBlock, out, h) ==
    [currentPos |-> cur, tokenIdx |-> ti, commentIdx |-> ci,
     inCodeBlock |-> inBlock, sb |-> out, hist |-> h,
     brk |-> FALSE, panicked |-> FALSE]

\* the loop's break condition
MDXLoopExit(lines, segs, cmts, st) ==
    /\ Compare(st.currentPos, FileEndPos(lines)) >= 0
    /\ st.tokenIdx >= Len(segs)
    /\ st.commentIdx >= Len(cmts)

\* the gap step with the code block opened before the text is tested
GapStep_openBeforeTest(lines, segs, cmts, st) ==
    LET gapEnd == GapEnd(lines, segs, cmts, st)
        nextCommentStart == getNextCommentStart(cmts, st.commentIdx)
        raw == getSourceFromSpan(lines, Range(st.currentPos, gapEnd))
        lead == IF ~st.inCodeBlock THEN TrimLeft(raw) ELSE raw
        gapContent == IF Compare(gapEnd, nextCommentStart) = 0 THEN TrimRight(lead) ELSE lead
    IN
    IF Compare(st.currentPos, gapEnd) < 0 THEN
        [st EXCEPT
            !.sb = @ \o (IF ~st.inCodeBlock THEN <<WrapperStart>> ELSE <<>>)
                     \o (IF gapContent # <<>> THEN <<LiteralRun(gapContent)>> ELSE <<>>),
            !.inCodeBlock = TRUE,
            !.currentPos = gapEnd,
            !.hist = Append(@, [kind |-> "gap", from |-> st.currentPos, to |-> gapEnd,
                                text |-> gapContent, open |-> st.inCodeBlock,
                                beforeComment |-> Compare(gapEnd, nextCommentStart) = 0])]
    ELSE st

\* the gap step without the trimming of leading whitespace
GapStep_noLeadingTrim(lines, segs, cmts, st) ==
    LET gapEnd == GapEnd(lines, segs, cmts, st)
        nextCommentStart == getNextCommentStart(cmts, st.commentIdx)
        raw == getSourceFromSpan(lines, Range(st.currentPos, gapEnd))
        gapContent == IF Compare(gapEnd, nextCommentStart) = 0 THEN TrimRight(raw) ELSE raw
    IN
    IF Compare(st.currentPos, gapEnd) < 0 THEN
        [st EXCEPT
            !.sb = IF gapContent # <<>>
                   THEN @ \o (IF ~st.inCodeBlock THEN <<WrapperStart>> ELSE <<>>)
                          \o <<LiteralRun(gapContent)>>
                   ELSE @,
            !.inCodeBlock = IF gapContent # <<>> THEN TRUE ELSE @,
            !.currentPos = gapEnd,
            !.hist = Append(@, [kind |-> "gap", from |-> st.currentPos, to |-> gapEnd,
                                text |-> gapContent, open |-> st.inCodeBlock,
                                beforeComment |-> Compare(gapEnd, nextCommentStart) = 0])]
    ELSE st

\* the gap step trimming trailing whitespace of every gap
GapStep_trimEveryEnd(lines, segs, cmts, st) ==
    LET gapEnd == GapEnd(lines, segs, cmts, st)
        nextCommentStart == getNextCommentStart(cmts, st.commentIdx)
        raw == getSourceFromSpan(lines, Range(st.currentPos, gapEnd))
        lead == IF ~st.inCodeBlock THEN TrimLeft(raw) ELSE raw
        gapContent == TrimRight(lead)
    IN
    IF Compare(st.currentPos, gapEnd) < 0 THEN
        [st EXCEPT
            !.sb = IF gapContent # <<>>
                   THEN @ \o (IF ~st.inCodeBlock THEN <<WrapperStart>> ELSE <<>>)
                          \o <<LiteralRun(gapContent)>>
                   ELSE @,
            !.inCodeBlock = IF gapContent # <<>> THEN TRUE ELSE @,
            !.currentPos = gapEnd,
            !.hist = Append(@, [kind |-> "gap", from |-> st.currentPos, to |-> gapEnd,
                                text |-> gapContent, open |-> st.inCodeBlock,
                                beforeComment |-> Compare(gapEnd, nextCommentStart) = 0])]
    ELSE st

\* "Process gap text": the text between the cursor and the next event
GapStep(lines, segs, cmts, st) ==
    LET gapEnd == GapEnd(lines, segs, cmts, st)
        nextCommentStart == getNextCommentStart(cmts, st.commentIdx)
        raw == getSourceFromSpan(lines, Range(st.currentPos, gapEnd))
        lead == IF ~st.inCodeBlock THEN TrimLeft(raw) ELSE raw
        gapContent == IF Compare(gapEnd, nextCommentStart) = 0 THEN TrimRight(lead) ELSE lead
    IN
    IF Compare(st.currentPos, gapEnd) < 0 THEN
        [st EXCEPT
            !.sb = IF gapContent # <<>>
                   THEN @ \o (IF ~st.inCodeBlock THEN <<WrapperStart>> ELSE <<>>)
                          \o <<LiteralRun(gapContent)>>
                   ELSE @,
            !.inCodeBlock = IF gapContent # <<>> THEN TRUE ELSE @,
            !.currentPos = gapEnd,
            !.hist = Append(@, [kind |-> "gap", from |-> st.currentPos, to |-> gapEnd,
                                text |-> gapContent, open |-> st.inCodeBlock,
                                beforeComment |-> Compare(gapEnd, nextCommentStart) = 0])]
    ELSE st

\* the forced advance without the step to the next line
ForceAdvance_sameLine(lines, cur) ==
    IF cur.Character >= ByteLen(lines[cur.Line + 1]) THEN cur
    ELSE [Line |-> cur.Line, Character |-> cur.Character + 1]

\* the forced advance of the cursor by one position
ForceAdvance(lines, cur) ==
    LET p1 == Pos(cur.Line, cur.Character + 1)
        p2 == IF p1.Character > ByteLen(lines[p1.Line + 1]) THEN Pos(p1.Line + 1, 0) ELSE p1
    IN IF p2.Line >= Len(lines) THEN FileEndPos(lines) ELSE p2

\* the skip loop passing only the tokens that end before the comment's end
RECURSIVE SkipTokens_endBefore(_, _, _)
SkipTokens_endBefore(segs, ti, cur) ==
    IF ti < Len(segs) /\ Compare(segs[ti + 1].Span.End, cur) < 0
    THEN SkipTokens_endBefore(segs, ti + 1, cur)
    ELSE ti

\* "Skip any tokens entirely within this comment's span"
RECURSIVE SkipTokens(_, _, _)
SkipTokens(segs, ti, cur) ==
    IF ti < Len(segs) /\ Compare(segs[ti + 1].Span.End, cur) <= 0
    THEN SkipTokens(segs, ti + 1, cur)
    ELSE ti

\* the comment branch: close the code block, write the prose, skip the tokens
\* inside the comment
ResolveComment(segs, cmts, st) ==
    LET comment == cmts[st.commentIdx + 1]
        skipTo == SkipTokens(segs, st.tokenIdx, comment.Span.End)
    IN [st EXCEPT
          !.sb = @ \o (IF st.inCodeBlock THEN <<WrapperEnd>> ELSE <<>>)
                   \o <<Prose(comment.Content)>>,
          !.inCodeBlock = FALSE,
          !.currentPos = comment.Span.End,
          !.commentIdx = @ + 1,
          !.tokenIdx = skipTo,
          !.hist = Append(@, [kind |-> "comment", from |-> st.currentPos,
                              to |-> comment.Span.End, idx |-> st.commentIdx,
                              tokenStart |-> getNextTokenStart(segs, st.tokenIdx),
                              skipped |-> skipTo - st.tokenIdx, skipTo |-> skipTo])]

\* the token branch: open a code block if needed, write the token
ResolveToken(lines, segs, cmts, st) ==
    LET token == segs[st.tokenIdx + 1]
    IN [st EXCEPT
          !.sb = @ \o (IF ~st.inCodeBlock THEN <<WrapperStart>> ELSE <<>>)
                   \o <<TokenRun(token, getSourceFromSpan(lines, token.Span))>>,
          !.inCodeBlock = TRUE,
          !.currentPos = token.Span.End,
          !.tokenIdx = @ + 1,
          !.hist = Append(@, [kind |-> "token", from |-> st.currentPos,
                              to |-> token.Span.End, idx |-> st.tokenIdx,
                              commentStart |-> getNextCommentStart(cmts, st.commentIdx)])]

\* the last branch: the safeguard that advances the cursor by one position
ResolveForced(lines, st) ==
    IF st.currentPos.Line < 0 \/ st.currentPos.Line >= Len(lines) THEN
        \* sourceLines[currentPos.Line] is out of range
        [st EXCEPT !.panicked = TRUE]
    ELSE
        [st EXCEPT
            !.currentPos = ForceAdvance(lines, st.currentPos),
            !.hist = Append(@, [kind |-> "forced", from |-> st.currentPos,
                                to |-> ForceAdvance(lines, st.currentPos)])]

\* the event resolution with the token tested before the comment
EventStep_tokenFirst(lines, segs, cmts, st) ==
    LET nextTokenStart == getNextTokenStart(segs, st.tokenIdx)
        nextCommentStart == getNextCommentStart(cmts, st.commentIdx)
    IN
    IF Compare(st.currentPos, nextTokenStart) = 0 THEN
        ResolveToken(lines, segs, cmts, st)
    ELSE IF /\ Compare(st.currentPos, nextCommentStart) = 0
            /\ Compare(nextCommentStart, nextTokenStart) <= 0
    THEN ResolveComment(segs, cmts, st)
    ELSE IF Compare(st.currentPos, FileEndPos(lines)) >= 0 THEN
        [st EXCEPT !.brk = TRUE]
    ELSE ResolveForced(lines, st)

\* "Process next event": comment, token, end of file or forced advance
EventStep(lines, segs, cmts, st) ==
    LET nextTokenStart == getNextTokenStart(segs, st.tokenIdx)
        nextCommentStart == getNextCommentStart(cmts, st.commentIdx)
    IN
    IF /\ Compare(st.currentPos, nextCommentStart) = 0
       /\ Compare(nextCommentStart, nextTokenStart) <= 0
    THEN ResolveComment(segs, cmts, st)
    ELSE IF Compare(st.currentPos, nextTokenStart) = 0 THEN
        ResolveToken(lines, segs, cmts, st)
    ELSE IF Compare(st.currentPos, FileEndPos(lines)) >= 0 THEN
        [st EXCEPT !.brk = TRUE]
    ELSE ResolveForced(lines, st)

\* one iteration of the loop of GenerateMDX, past the break condition
MDXBody(lines, segs, cmts, st) ==
    EventStep(lines, segs, cmts, GapStep(lines, segs, cmts, st))

\* the return without the final closing
MDXClose_leaveOpen(st) == st

\* "Final closing for any open code block"
MDXClose(st) ==
    [st EXCEPT !.sb = IF st.inCodeBlock THEN Append(@, WrapperEnd) ELSE @]

----------------------------------------------------------------------------
(* MergeSplitTokens step by step *)

NoPos == Pos(0, 0)

\* entry of MergeSplitTokens, up to the loop
MergeSplitEnter ==
    /\ pc = "split_call"
    /\ IF Len(tokens) = 0
       THEN /\ pc' = "split_done"
            /\ UNCHANGED curPos
       ELSE /\ pc' = "split_loop"
            /\ curPos' = tokens[1].Span.Start
    /\ result' = <<>>
    /\ activeTokens' = <<>>
    /\ index' = 0
    /\ UNCHANGED <<tokens, splitErr, mdxInputs, mdxVars>>
    /\ UNCHANGED extVars
    /\ UNCHANGED mainVars

\* the loop's break
MergeSplitBreak ==
    /\ pc = "split_loop"
    /\ LoopExit(tokens, LoopState(result, activeTokens, curPos, index, FALSE))
    /\ pc' = "split_done"
    /\ UNCHANGED <<splitVars, mdxInputs, mdxVars>>
    /\ UNCHANGED extVars
    /\ UNCHANGED mainVars

\* one iteration of the loop
MergeSplitIterate ==
    /\ pc = "split_loop"
    /\ ~LoopExit(tokens, LoopState(result, activeTokens, curPos, index, FALSE))
    /\ LET st == LoopBody(tokens, LoopState(result, activeTokens, curPos, index, FALSE))
       IN /\ result' = st.result
          /\ activeTokens' = st.activeTokens
          /\ curPos' = st.curPos
          /\ index' = st.index
          /\ splitErr' = st.err
          /\ pc' = IF st.err THEN "split_done" ELSE "split_loop"
    /\ LET ns == findNextSplit(tokens, index, activeTokens)
       IN tokens' = IF ns.err THEN tokens
                    ELSE processSplitAtPosition(ns.pos, tokens, index, activeTokens).tokens
    /\ UNCHANGED <<mdxInputs, mdxVars>>
    /\ UNCHANGED extVars
    /\ UNCHANGED mainVars

SplitIdle ==
    /\ result = <<>>
    /\ activeTokens = <<>>
    /\ curPos = NoPos
    /\ index = 0
    /\ splitErr = FALSE

\* the zero value of Config
NoConfig == [AbsSrcPath |-> <<>>, OutPath |-> <<>>, Format |-> "", PrefixDate |-> FALSE]

CallIdle ==
    /\ cfg = NoConfig
    /\ outPath = <<>>
    /\ sourceContent = <<>>
    /\ startByte = 0
    /\ standalone = FALSE

\* no message of the language server
NoMsg == [token |-> [type |-> "none", val |-> 0], kind |-> "", complete |-> FALSE]

LspIdle ==
    /\ lspMu = "free"
    /\ activeWork = {}
    /\ hPc = "idle"
    /\ hMsg = NoMsg
    /\ wfiPc = "off"
    /\ waiterPc = "off"
    /\ done = FALSE
    /\ timerFired = FALSE
    /\ ctxDone = FALSE
    /\ lspRet = "none"
    /\ sawEmpty = FALSE
    /\ wasWoken = FALSE

ExtIdle ==
    /\ extSpan = Range(NoPos, NoPos)
    /\ extText = <<>>
    /\ unsorted = <<>>
    /\ LspIdle
    /\ CallIdle

\* the analyzer goroutines of main
Analyzers == {"scip", "highlight", "comment"}

MainIdle ==
    /\ useScip = FALSE
    /\ useLang = FALSE
    /\ goPc = [a \in Analyzers |-> "off"]
    /\ outcome = [a \in Analyzers |-> "none"]
    /\ wg = 0
    /\ errs = <<>>
    /\ scipTokens = <<>>
    /\ highlightTokens = <<>>
    /\ commentTokens = <<>>
    /\ written = FALSE
    /\ stderr = <<>>
    /\ mu = "free"
    /\ appendArg = [a \in Analyzers |-> <<>>]
    /\ doneOrder = <<>>

MDXIdle ==
    /\ segments = <<>>
    /\ currentPos = NoPos
    /\ tokenIdx = 0
    /\ commentIdx = 0
    /\ inCodeBlock = FALSE
    /\ sb = <<>>
    /\ hist = <<>>

InitSplit ==
    /\ pc = "split_call"
    /\ tokens \in SortedTokenLists
    /\ SplitIdle
    /\ sourceLines = <<>>
    /\ comments = <<>>
    /\ MDXIdle
    /\ ExtIdle
    /\ MainIdle

NextSplit == MergeSplitEnter \/ MergeSplitBreak \/ MergeSplitIterate

\* MergeSplitTokens on every sorted list of valid tokens
SpecSplit == InitSplit /\ [][NextSplit]_vars

----------------------------------------------------------------------------
(* GenerateMDX step by step *)

MDXNow == MDXState(currentPos, tokenIdx, commentIdx, inCodeBlock, sb, hist)

\* entry of GenerateMDX, up to the loop
GenerateMDXEnter ==
    /\ pc = "mdx_call"
    /\ currentPos' = Pos(0, 0)
    /\ tokenIdx' = 0
    /\ commentIdx' = 0
    /\ inCodeBlock' = FALSE
    /\ sb' = <<>>
    /\ hist' = <<>>
    /\ pc' = "mdx_loop"
    /\ UNCHANGED <<splitVars, mdxInputs, segments>>
    /\ UNCHANGED extVars
    /\ UNCHANGED mainVars

\* the break at the head of the loop, and the final closing
GenerateMDXBreak ==
    /\ pc = "mdx_loop"
    /\ MDXLoopExit(sourceLines, segments, comments, MDXNow)
    /\ sb' = MDXClose(MDXNow).sb
    /\ pc' = "mdx_done"
    /\ UNCHANGED <<splitVars, mdxInputs, segments, currentPos, tokenIdx, commentIdx,
                   inCodeBlock, hist>>
    /\ UNCHANGED extVars
    /\ UNCHANGED mainVars

\* one iteration of the loop; the break inside it goes on to the final closing
GenerateMDXIterate ==
    /\ pc = "mdx_loop"
    /\ ~MDXLoopExit(sourceLines, segments, comments, MDXNow)
    /\ LET st == MDXBody(sourceLines, segments, comments, MDXNow)
       IN /\ currentPos' = st.currentPos
          /\ tokenIdx' = st.tokenIdx
          /\ commentIdx' = st.commentIdx
          /\ inCodeBlock' = st.inCodeBlock
          /\ hist' = st.hist
          /\ sb' = IF st.brk THEN MDXClose(st).sb ELSE st.sb
          /\ pc' = IF st.panicked THEN "mdx_panic"
                   ELSE IF st.brk THEN "mdx_done"
                   ELSE "mdx_loop"
    /\ UNCHANGED <<splitVars, mdxInputs, segments>>
    /\ UNCHANGED extVars
    /\ UNCHANGED mainVars

\* the text alphabet of the buffers
BufferChars == {"a", " ", "E"}

\* buffers of at most MaxBufLines lines of MaxLineLen characters
Buffers == SeqsUpTo([1..MaxLineLen -> BufferChars], MaxBufLines)

AllSpans == {Range(s, e) : s \in Positions, e \in Positions}

\* segment and comment lists of any shape: unsorted, overlapping, inverted,
\* outside the buffer
AnySegments ==
    {TokenInfo("a", FALSE, TRUE, "function", <<>>, sp) : sp \in AllSpans}

AnyComments == {CommentInfo("c", sp) : sp \in AllSpans}

InitMDX ==
    /\ pc = "mdx_call"
    /\ sourceLines \in Buffers
    /\ comments \in SeqsUpTo(AnyComments, MaxComments)
    /\ segments \in SeqsUpTo(AnySegments, MaxSegments)
    /\ tokens = <<>>
    /\ SplitIdle
    /\ currentPos = NoPos
    /\ tokenIdx = 0
    /\ commentIdx = 0
    /\ inCodeBlock = FALSE
    /\ sb = <<>>
    /\ hist = <<>>
    /\ ExtIdle
    /\ MainIdle

NextMDX == GenerateMDXEnter \/ GenerateMDXBreak \/ GenerateMDXIterate

\* GenerateMDX on every buffer, segment list and comment list
SpecMDX == InitMDX /\ [][NextMDX]_vars

----------------------------------------------------------------------------
(* The pipeline of main: sort, MergeSplitTokens, GenerateMDX *)

\* the permutations of a list
IndexPermutations(n) == {f \in [1..n -> 1..n] : \A i, j \in 1..n : f[i] = f[j] => i = j}

\* SortTokens: sort.Slice is not stable, so any sorted permutation can result
SortTokens(toks) ==
    {perm \in {[i \in 1..Len(toks) |-> toks[f[i]]] : f \in IndexPermutations(Len(toks))} :
        IsSorted(perm)}

\* the tokens of a pipeline run
PipeTokens ==
    {TokenInfo("a", FALSE, TRUE, "function", <<"d1">>, sp) : sp \in ValidSpans}

\* comment lists as the comment analyzer delivers them: spans of positive
\* length, sorted by start, pairwise non-overlapping
CommentLists ==
    {cl \in SeqsUpTo({CommentInfo("c", sp) :
                         sp \in {v \in ValidSpans : Compare(v.Start, v.End) < 0}},
                     MaxComments) :
        \A i \in 1..Len(cl) - 1 : Compare(cl[i].Span.End, cl[i + 1].Span.Start) <= 0}

\* buffers in which every position of the model lies
FullBuffers == [1..MaxLine + 1 -> [1..MaxChar -> {"a", " "}]]

\* main: sort the collected tokens
PipelineSort ==
    /\ pc = "sort"
    /\ tokens' \in SortTokens(tokens)
    /\ pc' = "split_call"
    /\ unsorted' = tokens
    /\ UNCHANGED <<result, activeTokens, curPos, index, splitErr, mdxInputs, mdxVars>>
    /\ UNCHANGED <<extSpan, extText, callVars, lspVars>>
    /\ UNCHANGED mainVars

\* main: hand the result of MergeSplitTokens to GenerateMDX
PipelineGenerate ==
    /\ pc = "split_done"
    /\ ~splitErr
    /\ segments' = result
    /\ pc' = "mdx_call"
    /\ UNCHANGED <<splitVars, mdxInputs, currentPos, tokenIdx, commentIdx, inCodeBlock,
                   sb, hist>>
    /\ UNCHANGED extVars
    /\ UNCHANGED mainVars

Init ==
    /\ pc = "sort"
    /\ tokens \in SeqsUpTo(PipeTokens, MaxPipeTokens)
    /\ comments \in CommentLists
    /\ sourceLines \in FullBuffers
    /\ SplitIdle
    /\ MDXIdle
    /\ ExtIdle
    /\ MainIdle

Next ==
    \/ PipelineSort
    \/ MergeSplitEnter \/ MergeSplitBreak \/ MergeSplitIterate
    \/ PipelineGenerate
    \/ GenerateMDXEnter \/ GenerateMDXBreak \/ GenerateMDXIterate

\* a run of the pipeline on valid tokens and comments inside the buffer
Spec == Init /\ [][Next]_vars

----------------------------------------------------------------------------
(* MergeSplitTokens on token lists of any shape *)

\* tokens with any span: start before, at or after the end
AnyTokens == {TokenInfo("a", FALSE, TRUE, "function", <<"d1">>, sp) : sp \in AllSpans}

InitSplitAny ==
    /\ pc = "split_call"
    /\ tokens \in SeqsUpTo(AnyTokens, MaxAnyTokens)
    /\ SplitIdle
    /\ sourceLines = <<>>
    /\ comments = <<>>
    /\ MDXIdle
    /\ ExtIdle
    /\ MainIdle

\* MergeSplitTokens on every token list: unsorted, inverted spans included
SpecSplitAny == InitSplitAny /\ [][NextSplit]_vars

----------------------------------------------------------------------------
(* Config.ResolveOutputPath *)

\* a path is the sequence of its elements below the root; a file name is a
\* sequence of characters
filepathDir(path) == SubSeq(path, 1, Len(path) - 1)

filepathBase(path) == path[Len(path)]

\* filepath.Join(dir, name) for a name without separators
filepathJoin(dir, name) == Append(dir, name)

ExtMdx == <<".", "m", "d", "x">>

ExtMd == <<".", "m", "d">>

\* ResolveOutputPath: OutPath if it is set; else, in the directory of the
\* source, the name "<prefix>-<base><ext>", the prefix being the date and a
\* dash with PrefixDate and empty without; now is time.Now() as a date
ResolveOutputPath(c, now) ==
    IF c.OutPath # <<>> THEN c.OutPath
    ELSE LET dir == filepathDir(c.AbsSrcPath)
             base == filepathBase(c.AbsSrcPath)
             prefix == IF c.PrefixDate THEN now \o <<"-">> ELSE <<>>
             ext == IF c.Format = "mdx" THEN ExtMdx ELSE ExtMd
         IN filepathJoin(dir, prefix \o <<"-">> \o base \o ext)

\* the dates time.Now() can give, formatted as 2006-01-02
Dates ==
    { <<"2", "0", "2", "5", "-", "0", "1", "-", "0", "2">>,
      <<"2", "0", "2", "6", "-", "1", "1", "-", "0", "1">> }

FileNames == { <<"m", ".", "g", "o">>, <<"-", "l", ".", "r", "s">> }

DirNames == { <<"a">>, <<"b">> }

\* absolute paths of source files
SrcPaths == {Append(d, f) : d \in SeqsUpTo(DirNames, MaxDirDepth), f \in FileNames}

\* the configurations ParseConfig accepts
Configs ==
    [AbsSrcPath : SrcPaths,
     OutPath : {<<>>, << <<"o">>, <<"o", ".", "m", "d">> >>},
     Format : {"mdx", "markdown"},
     PrefixDate : BOOLEAN]

\* Pipeline.Run: outPath := p.cfg.ResolveOutputPath()
ResolveOutputPathCall ==
    /\ pc = "resolve_call"
    /\ \E now \in Dates : outPath' = ResolveOutputPath(cfg, now)
    /\ pc' = "resolve_done"
    /\ UNCHANGED <<splitVars, mdxInputs, mdxVars, extSpan, extText, unsorted, cfg,
                   sourceContent, startByte, standalone, lspVars>>
    /\ UNCHANGED mainVars

InitConfig ==
    /\ pc = "resolve_call"
    /\ cfg \in Configs
    /\ outPath = <<>>
    /\ sourceContent = <<>>
    /\ startByte = 0
    /\ standalone = FALSE
    /\ extSpan = Range(NoPos, NoPos)
    /\ extText = <<>>
    /\ unsorted = <<>>
    /\ LspIdle
    /\ tokens = <<>>
    /\ sourceLines = <<>>
    /\ comments = <<>>
    /\ SplitIdle
    /\ MDXIdle
    /\ MainIdle

NextConfig == ResolveOutputPathCall

\* ResolveOutputPath on every configuration
SpecConfig == InitConfig /\ [][NextConfig]_vars

----------------------------------------------------------------------------
(* MarkdownGenerator.generateMarkdownCode *)

\* strings.ReplaceAll(text, ch, repl) for a single character ch
RECURSIVE ReplaceAll(_, _, _)
ReplaceAll(text, ch, repl) ==
    IF text = <<>> THEN <<>>
    ELSE (IF Head(text) = ch THEN repl ELSE <<Head(text)>>) \o ReplaceAll(Tail(text), ch, repl)

EntAmp == <<"&", "a", "m", "p", ";">>

EntLt == <<"&", "l", "t", ";">>

EntGt == <<"&", "g", "t", ";">>

EntQuot == <<"&", "q", "u", "o", "t", ";">>

EntApos == <<"&", "#", "3", "9", ";">>

\* escapeHTML: the five replacements, the ampersand first
escapeHTML(text) ==
    ReplaceAll(ReplaceAll(ReplaceAll(ReplaceAll(ReplaceAll(text,
        "&", EntAmp), "<", EntLt), ">", EntGt), "\"", EntQuot), "'", EntApos)

\* what the string builder of generateMarkdownCode receives: escaped text,
\* and for a token the element around it
TextPiece(html) == [kind |-> "text", html |-> html]

\* outputTokenHTML: the token's escaped text inside a span with an id for a
\* definition, else a link for a reference, else a span of the highlight
\* class, else with nothing around it; a symbol is one character here
outputTokenHTML(lines, token) ==
    LET escapedContent == escapeHTML(getSourceFromSpan(lines, token.Span))
        cssClass == token.HighlightClass
        markup ==
            IF token.IsDefinition THEN
                [elem |-> "span", id |-> escapeHTML(<<token.Symbol>>), href |-> <<>>,
                 class |-> <<cssClass, "definition">>]
            ELSE IF token.IsReference THEN
                [elem |-> "a", id |-> <<>>, href |-> escapeHTML(<<token.Symbol>>),
                 class |-> <<cssClass, "reference">>]
            ELSE IF cssClass # "" THEN
                [elem |-> "span", id |-> <<>>, href |-> <<>>, class |-> <<cssClass>>]
            ELSE
                [elem |-> "", id |-> <<>>, href |-> <<>>, class |-> <<>>]
    IN [kind |-> "token", html |-> escapedContent, tok |-> token, markup |-> markup]

\* outputGapText: the escaped text from start to end, nothing if they are equal
outputGapText(lines, start, end) ==
    IF Compare(start, end) = 0 THEN <<>>
    ELSE <<TextPiece(escapeHTML(getSourceFromSpan(lines, Range(start, end))))>>

\* generateMarkdownCode without the text behind the last token
outputRemainingText_nothing(lines, startPos) == <<>>

\* outputRemainingText: the escaped text from startPos to the end of the file
outputRemainingText(lines, startPos) ==
    IF Len(lines) = 0 THEN <<>>
    ELSE IF Compare(startPos, FileEndPos(lines)) >= 0 THEN <<>>
    ELSE <<TextPiece(escapeHTML(
              getSourceFromSpan(lines, Range(startPos, FileEndPos(lines)))))>>

\* entry of generateMarkdownCode, up to the loop
generateMarkdownCodeEnter ==
    /\ pc = "md_call"
    /\ sb' = <<>>
    /\ currentPos' = Pos(0, 0)
    /\ tokenIdx' = 0
    /\ pc' = "md_loop"
    /\ UNCHANGED <<splitVars, mdxInputs, segments, commentIdx, inCodeBlock, hist>>
    /\ UNCHANGED extVars
    /\ UNCHANGED mainVars

\* one iteration of the loop over the tokens: the gap, then the token
generateMarkdownCodeIterate ==
    /\ pc = "md_loop"
    /\ tokenIdx < Len(segments)
    /\ LET token == segments[tokenIdx + 1]
       IN /\ sb' = sb \o outputGapText(sourceLines, currentPos, token.Span.Start)
                     \o <<outputTokenHTML(sourceLines, token)>>
          /\ currentPos' = token.Span.End
    /\ tokenIdx' = tokenIdx + 1
    /\ UNCHANGED <<pc, splitVars, mdxInputs, segments, commentIdx, inCodeBlock, hist>>
    /\ UNCHANGED extVars
    /\ UNCHANGED mainVars

\* the end of the loop: the remaining text, and the return
generateMarkdownCodeReturn ==
    /\ pc = "md_loop"
    /\ tokenIdx >= Len(segments)
    /\ sb' = sb \o outputRemainingText(sourceLines, currentPos)
    /\ pc' = "md_done"
    /\ UNCHANGED <<splitVars, mdxInputs, segments, currentPos, tokenIdx, commentIdx,
                   inCodeBlock, hist>>
    /\ UNCHANGED extVars
    /\ UNCHANGED mainVars

\* the characters of the buffers, two of which escapeHTML replaces
MdChars == {"a", "<", "&"}

\* buffers of at most MaxLine + 1 lines of at most MaxChar characters
MdBuffers == SeqsUpTo(SeqsUpTo(MdChars, MaxChar), MaxLine + 1)

\* a definition, a reference, a highlighted token and a token without any
\* annotation, over every valid span
MdTokens ==
    {TokenInfo(a[1], a[2], a[3], a[4], <<>>, sp) :
        a \in { <<"<", FALSE, TRUE, "function">>, <<"s", TRUE, FALSE, "">>,
                <<"", FALSE, FALSE, "keyword">>, <<"", FALSE, FALSE, "">> },
        sp \in ValidSpans}

\* "Make sure that all tokens are sorted and not intersect with each other
\* before generation": the lists GenerateMarkdown is to be called with
MdTokenLists ==
    {toks \in SeqsUpTo(MdTokens, MaxMdTokens) : IsSorted(toks) /\ NonOverlapping(toks)}

InitMarkdown ==
    /\ pc = "md_call"
    /\ sourceLines \in MdBuffers
    /\ segments \in MdTokenLists
    /\ comments = <<>>
    /\ tokens = <<>>
    /\ SplitIdle
    /\ currentPos = NoPos
    /\ tokenIdx = 0
    /\ commentIdx = 0
    /\ inCodeBlock = FALSE
    /\ sb = <<>>
    /\ hist = <<>>
    /\ ExtIdle
    /\ MainIdle

NextMarkdown ==
    generateMarkdownCodeEnter \/ generateMarkdownCodeIterate \/ generateMarkdownCodeReturn

\* generateMarkdownCode on every buffer and every sorted, non-overlapping list
SpecMarkdown == InitMarkdown /\ [][NextMarkdown]_vars

----------------------------------------------------------------------------
(* isCommentStandalone *)

\* bytes.LastIndexByte: the 0-based index of the last ch, -1 if there is none
LastIndexByte(bytes, ch) ==
    LET at == {i \in 1..Len(bytes) : bytes[i] = ch}
    IN IF at = {} THEN -1 ELSE (CHOOSE i \in at : \A j \in at : j <= i) - 1

\* strings.TrimSpace
TrimSpace(text) == TrimRight(TrimLeft(text))

\* isCommentStandalone with the prefix taken from the start of the file
isCommentStandalone_wholePrefix(src, start) ==
    TrimSpace(SubSeq(src, 1, start)) = <<>>

\* isCommentStandalone: the text from the start of the comment's line to the
\* comment is empty once trimmed
isCommentStandalone(src, start) ==
    LET lineStart == LastIndexByte(SubSeq(src, 1, start), "\n") + 1
        prefix == SubSeq(src, lineStart + 1, start)
    IN TrimSpace(prefix) = <<>>

isCommentStandaloneCall ==
    /\ pc = "standalone_call"
    /\ standalone' = isCommentStandalone(sourceContent, startByte)
    /\ pc' = "standalone_done"
    /\ UNCHANGED <<splitVars, mdxInputs, mdxVars, extSpan, extText, unsorted, cfg, outPath,
                   sourceContent, startByte, lspVars>>
    /\ UNCHANGED mainVars

\* the bytes of the sources: a letter, the comment sign, whitespace
SourceBytes == {"a", "/", " ", "\t", "\n"}

InitStandalone ==
    /\ pc = "standalone_call"
    /\ sourceContent \in SeqsUpTo(SourceBytes, MaxSrcLen)
    /\ startByte \in 0..Len(sourceContent)
    /\ standalone = FALSE
    /\ cfg = NoConfig
    /\ outPath = <<>>
    /\ extSpan = Range(NoPos, NoPos)
    /\ extText = <<>>
    /\ unsorted = <<>>
    /\ LspIdle
    /\ tokens = <<>>
    /\ sourceLines = <<>>
    /\ comments = <<>>
    /\ SplitIdle
    /\ MDXIdle
    /\ MainIdle

NextStandalone == isCommentStandaloneCall

\* isCommentStandalone on every source and every offset into it
SpecStandalone == InitStandalone /\ [][NextStandalone]_vars

----------------------------------------------------------------------------
(* lsp.Client: handleProgress and WaitForIndexing *)

\* everything but the state of the client
nonLspVars == <<pc, splitVars, mdxInputs, mdxVars, extSpan, extText, unsorted, callVars,
                mainVars>>

\* strconv.Itoa on the numbers used as tokens
Itoa(n) == <<"0", "1", "2", "3", "4", "5", "6", "7", "8", "9">>[n + 1]

\* params.Token: a string, a JSON number, or a value of another type
ProgressTokens ==
    {[type |-> "string", val |-> Itoa(n)] : n \in 1..MaxWorkTokens}
    \cup {[type |-> "float64", val |-> n] : n \in 1..MaxWorkTokens}
    \cup {[type |-> "bool", val |-> 0]}

\* the params of $/progress: the token, the kind of the value, and whether
\* its message contains "15/15" or "100%"
ProgressParams ==
    {[token |-> t, kind |-> k, complete |-> c] :
        t \in ProgressTokens, k \in {"begin", "end", "report"}, c \in BOOLEAN}

\* "Convert token to string key"
tokenStr(t) == IF t.type = "string" THEN t.val ELSE Itoa(t.val)

\* handleProgress, c.mu.Lock
handleProgressLock(params) ==
    /\ hPc = "idle"
    /\ lspMu = "free"
    /\ lspMu' = "handler"
    /\ hMsg' = params
    /\ hPc' = "switch"
    /\ UNCHANGED <<activeWork, wfiPc, waiterPc, done, timerFired, ctxDone, lspRet, sawEmpty,
                   wasWoken>>
    /\ UNCHANGED nonLspVars

\* c.workDoneCond.Broadcast: every goroutine in Wait is made runnable
Broadcast(w) == IF w = "wait" THEN "woken" ELSE w

\* handleProgress with the key deleted and no Broadcast
handleProgressSwitch_noBroadcast ==
    /\ hPc = "switch"
    /\ IF hMsg.token.type \notin {"string", "float64"}
       THEN UNCHANGED activeWork
       ELSE IF hMsg.kind = "begin"
       THEN activeWork' = activeWork \cup {tokenStr(hMsg.token)}
       ELSE IF hMsg.kind = "end" \/ hMsg.complete
       THEN activeWork' = activeWork \ {tokenStr(hMsg.token)}
       ELSE UNCHANGED activeWork
    /\ hPc' = "unlock"
    /\ UNCHANGED <<lspMu, hMsg, wfiPc, waiterPc, done, timerFired, ctxDone, lspRet, sawEmpty,
                   wasWoken>>
    /\ UNCHANGED nonLspVars

\* handleProgress between Lock and Unlock: the key of the token and the
\* switch on the kind of the value
handleProgressSwitch ==
    /\ hPc = "switch"
    /\ IF hMsg.token.type \notin {"string", "float64"}
       THEN UNCHANGED <<activeWork, waiterPc, wasWoken>>
       ELSE IF hMsg.kind = "begin"
       THEN /\ activeWork' = activeWork \cup {tokenStr(hMsg.token)}
            /\ UNCHANGED <<waiterPc, wasWoken>>
       ELSE IF hMsg.kind = "end" \/ hMsg.complete
       THEN /\ activeWork' = activeWork \ {tokenStr(hMsg.token)}
            /\ waiterPc' = Broadcast(waiterPc)
            /\ wasWoken' = (wasWoken \/ waiterPc = "wait")
       ELSE UNCHANGED <<activeWork, waiterPc, wasWoken>>
    /\ hPc' = "unlock"
    /\ UNCHANGED <<lspMu, hMsg, wfiPc, done, timerFired, ctxDone, lspRet, sawEmpty>>
    /\ UNCHANGED nonLspVars

\* handleProgress, the deferred c.mu.Unlock
handleProgressUnlock ==
    /\ hPc = "unlock"
    /\ lspMu' = "free"
    /\ hMsg' = NoMsg
    /\ hPc' = "idle"
    /\ UNCHANGED <<activeWork, wfiPc, waiterPc, done, timerFired, ctxDone, lspRet, sawEmpty,
                   wasWoken>>
    /\ UNCHANGED nonLspVars

\* WaitForIndexing, time.Sleep(500 * time.Millisecond)
WaitForIndexingSleep ==
    /\ wfiPc = "sleep"
    /\ wfiPc' = "lock"
    /\ UNCHANGED <<lspMu, activeWork, hPc, hMsg, waiterPc, done, timerFired, ctxDone, lspRet,
                   sawEmpty, wasWoken>>
    /\ UNCHANGED nonLspVars

\* WaitForIndexing, c.mu.Lock before the read of len(c.activeWork)
WaitForIndexingLock ==
    /\ wfiPc = "lock"
    /\ lspMu = "free"
    /\ lspMu' = "caller"
    /\ wfiPc' = "initialWork"
    /\ UNCHANGED <<activeWork, hPc, hMsg, waiterPc, done, timerFired, ctxDone, lspRet,
                   sawEmpty, wasWoken>>
    /\ UNCHANGED nonLspVars

\* WaitForIndexing, initialWork := len(c.activeWork) and c.mu.Unlock; the
\* value is only printed
WaitForIndexingInitialWork ==
    /\ wfiPc = "initialWork"
    /\ lspMu' = "free"
    /\ wfiPc' = "go"
    /\ UNCHANGED <<activeWork, hPc, hMsg, waiterPc, done, timerFired, ctxDone, lspRet,
                   sawEmpty, wasWoken>>
    /\ UNCHANGED nonLspVars

\* WaitForIndexing, done := make(chan struct{}) and the go statement
WaitForIndexingGo ==
    /\ wfiPc = "go"
    /\ waiterPc' = "lock"
    /\ wfiPc' = "select"
    /\ UNCHANGED <<lspMu, activeWork, hPc, hMsg, done, timerFired, ctxDone, lspRet, sawEmpty,
                   wasWoken>>
    /\ UNCHANGED nonLspVars

\* the goroutine, c.mu.Lock, and the Lock by which Wait returns
WaiterLock ==
    /\ waiterPc \in {"lock", "woken"}
    /\ lspMu = "free"
    /\ lspMu' = "waiter"
    /\ waiterPc' = "loop"
    /\ UNCHANGED <<activeWork, hPc, hMsg, wfiPc, done, timerFired, ctxDone, lspRet, sawEmpty,
                   wasWoken>>
    /\ UNCHANGED nonLspVars

\* the goroutine, len(c.activeWork) > 0: c.workDoneCond.Wait unlocks c.mu and
\* suspends the goroutine in one step
WaiterWait ==
    /\ waiterPc = "loop"
    /\ activeWork # {}
    /\ lspMu' = "free"
    /\ waiterPc' = "wait"
    /\ UNCHANGED <<activeWork, hPc, hMsg, wfiPc, done, timerFired, ctxDone, lspRet, sawEmpty,
                   wasWoken>>
    /\ UNCHANGED nonLspVars

\* the goroutine, len(c.activeWork) == 0: close(done)
WaiterClose ==
    /\ waiterPc = "loop"
    /\ activeWork = {}
    /\ done' = TRUE
    /\ sawEmpty' = TRUE
    /\ waiterPc' = "unlock"
    /\ UNCHANGED <<lspMu, activeWork, hPc, hMsg, wfiPc, timerFired, ctxDone, lspRet,
                   wasWoken>>
    /\ UNCHANGED nonLspVars

\* the goroutine, the deferred c.mu.Unlock; the goroutine ends
WaiterUnlock ==
    /\ waiterPc = "unlock"
    /\ lspMu' = "free"
    /\ waiterPc' = "terminated"
    /\ UNCHANGED <<activeWork, hPc, hMsg, wfiPc, done, timerFired, ctxDone, lspRet, sawEmpty,
                   wasWoken>>
    /\ UNCHANGED nonLspVars

\* the timer of time.After(timeout) fires
TimerFire ==
    /\ wfiPc = "select"
    /\ ~timerFired
    /\ timerFired' = TRUE
    /\ UNCHANGED <<lspMu, activeWork, hPc, hMsg, wfiPc, waiterPc, done, ctxDone, lspRet,
                   sawEmpty, wasWoken>>
    /\ UNCHANGED nonLspVars

\* c.cancel, or the cancellation of the context given to NewClient
Cancel ==
    /\ wfiPc # "returned"
    /\ ~ctxDone
    /\ ctxDone' = TRUE
    /\ UNCHANGED <<lspMu, activeWork, hPc, hMsg, wfiPc, waiterPc, done, timerFired, lspRet,
                   sawEmpty, wasWoken>>
    /\ UNCHANGED nonLspVars

\* WaitForIndexing, select: case <-done
WaitForIndexingDone ==
    /\ wfiPc = "select"
    /\ done
    /\ lspRet' = "nil"
    /\ wfiPc' = "returned"
    /\ UNCHANGED <<lspMu, activeWork, hPc, hMsg, waiterPc, done, timerFired, ctxDone,
                   sawEmpty, wasWoken>>
    /\ UNCHANGED nonLspVars

\* WaitForIndexing, select: case <-time.After(timeout)
WaitForIndexingTimeout ==
    /\ wfiPc = "select"
    /\ timerFired
    /\ wfiPc' = "stuck"
    /\ UNCHANGED <<lspMu, activeWork, hPc, hMsg, waiterPc, done, timerFired, ctxDone, lspRet,
                   sawEmpty, wasWoken>>
    /\ UNCHANGED nonLspVars

\* WaitForIndexing after the timeout, c.mu.Lock
WaitForIndexingStuckLock ==
    /\ wfiPc = "stuck"
    /\ lspMu = "free"
    /\ lspMu' = "caller"
    /\ wfiPc' = "keys"
    /\ UNCHANGED <<activeWork, hPc, hMsg, waiterPc, done, timerFired, ctxDone, lspRet,
                   sawEmpty, wasWoken>>
    /\ UNCHANGED nonLspVars

\* WaitForIndexing after the timeout: the keys are collected and printed,
\* c.mu.Unlock, and the error is returned
WaitForIndexingStuckReturn ==
    /\ wfiPc = "keys"
    /\ lspMu' = "free"
    /\ lspRet' = "timeout"
    /\ wfiPc' = "returned"
    /\ UNCHANGED <<activeWork, hPc, hMsg, waiterPc, done, timerFired, ctxDone, sawEmpty,
                   wasWoken>>
    /\ UNCHANGED nonLspVars

\* WaitForIndexing, select: case <-c.ctx.Done()
WaitForIndexingCancelled ==
    /\ wfiPc = "select"
    /\ ctxDone
    /\ lspRet' = "ctx"
    /\ wfiPc' = "returned"
    /\ UNCHANGED <<lspMu, activeWork, hPc, hMsg, waiterPc, done, timerFired, ctxDone,
                   sawEmpty, wasWoken>>
    /\ UNCHANGED nonLspVars

InitLSP ==
    /\ pc = "lsp"
    /\ lspMu = "free"
    /\ activeWork = {}
    /\ hPc = "idle"
    /\ hMsg = NoMsg
    /\ wfiPc = "sleep"
    /\ waiterPc = "off"
    /\ done = FALSE
    /\ timerFired = FALSE
    /\ ctxDone = FALSE
    /\ lspRet = "none"
    /\ sawEmpty = FALSE
    /\ wasWoken = FALSE
    /\ extSpan = Range(NoPos, NoPos)
    /\ extText = <<>>
    /\ unsorted = <<>>
    /\ CallIdle
    /\ tokens = <<>>
    /\ sourceLines = <<>>
    /\ comments = <<>>
    /\ SplitIdle
    /\ MDXIdle
    /\ MainIdle

handleProgress ==
    \/ \E params \in ProgressParams : handleProgressLock(params)
    \/ handleProgressSwitch
    \/ handleProgressUnlock

Waiter == WaiterLock \/ WaiterWait \/ WaiterClose \/ WaiterUnlock

WaitForIndexing ==
    \/ WaitForIndexingSleep \/ WaitForIndexingLock \/ WaitForIndexingInitialWork
    \/ WaitForIndexingGo
    \/ WaitForIndexingDone
    \/ WaitForIndexingTimeout \/ WaitForIndexingStuckLock \/ WaitForIndexingStuckReturn
    \/ WaitForIndexingCancelled

NextLSP == handleProgress \/ WaitForIndexing \/ Waiter \/ TimerFire \/ Cancel

\* one call of WaitForIndexing on a new client, with the calls of
\* handleProgress made by the connection's reader
SpecLSP == InitLSP /\ [][NextLSP]_vars

\* the scheduler runs every goroutine that can run; sync.Mutex hands the
\* lock to a goroutine that has waited for it (starvation mode), so a Lock
\* that is possible again and again is taken. Messages of the server, the
\* timer and the cancellation are under no obligation.
FairLSP ==
    /\ WF_vars(handleProgressSwitch)
    /\ WF_vars(handleProgressUnlock)
    /\ WF_vars(WaitForIndexingSleep)
    /\ SF_vars(WaitForIndexingLock)
    /\ WF_vars(WaitForIndexingInitialWork)
    /\ WF_vars(WaitForIndexingGo)
    /\ WF_vars(WaitForIndexingDone \/ WaitForIndexingTimeout \/ WaitForIndexingCancelled)
    /\ SF_vars(WaitForIndexingStuckLock)
    /\ WF_vars(WaitForIndexingStuckReturn)
    /\ SF_vars(WaiterLock)
    /\ WF_vars(WaiterWait)
    /\ WF_vars(WaiterClose)
    /\ WF_vars(WaiterUnlock)

SpecLSPFair == SpecLSP /\ FairLSP

----------------------------------------------------------------------------
(* GenerateMDX with spans that reach past the ends of the lines *)

\* buffers of one or two lines of at most one character, no character twice
WideBuffers ==
    {[l \in 1..Len(lens) |-> SubSeq(<< <<"a">>, <<"b">> >>[l], 1, lens[l])] :
        lens \in SeqsUpTo(0..1, 2) \ {<<>>}}

WidePositions == {Pos(l, c) : l \in 0..1, c \in 0..MaxWideChar}

\* every span with start <= end over these positions
WideSpans ==
    {sp \in {Range(p, q) : p \in WidePositions, q \in WidePositions} :
        Compare(sp.Start, sp.End) <= 0}

InitWide ==
    /\ pc = "mdx_call"
    /\ sourceLines \in WideBuffers
    /\ comments \in SeqsUpTo({CommentInfo("c", sp) : sp \in WideSpans}, 1)
    /\ segments \in SeqsUpTo({TokenInfo("a", FALSE, TRUE, "function", <<>>, sp) :
                                  sp \in WideSpans}, 1)
    /\ tokens = <<>>
    /\ SplitIdle
    /\ currentPos = NoPos
    /\ tokenIdx = 0
    /\ commentIdx = 0
    /\ inCodeBlock = FALSE
    /\ sb = <<>>
    /\ hist = <<>>
    /\ ExtIdle
    /\ MainIdle

\* GenerateMDX on one segment and one comment of valid span, inside or
\* outside the buffer
SpecWide == InitWide /\ [][NextMDX]_vars

----------------------------------------------------------------------------
(* Properties of MergeSplitTokens *)

\* span [Start, End) contains position p
Covers(span, p) == Compare(span.Start, p) <= 0 /\ Compare(p, span.End) < 0

\* the positions some token of the list covers
Covered(toks) == {p \in Positions : \E i \in 1..Len(toks) : Covers(toks[i].Span, p)}

SplitDone == pc = "split_done" /\ ~splitErr

\* C1 (coverage): when MergeSplitTokens returns, the positions covered by the
\* returned segments are exactly the positions covered by the input tokens.
C1_Coverage == SplitDone => Covered(result) = Covered(tokens)

\* two tokens with an uncovered position between them, and two that overlap
C1_Witness ==
    /\ SplitDone
    /\ Len(tokens) = 3
    /\ \E p, q, r \in Positions :
          /\ Compare(p, q) < 0 /\ Compare(q, r) < 0
          /\ p \in Covered(tokens) /\ q \notin Covered(tokens) /\ r \in Covered(tokens)
    /\ \E i, j \in 1..Len(tokens) : \E p \in Positions :
          i < j /\ Covers(tokens[i].Span, p) /\ Covers(tokens[j].Span, p)

\* C2 (non-overlap and order): the returned segments are in ascending order
\* and pairwise non-overlapping: each segment starts before it ends, and ends
\* no later than the next one starts.
C2_NonOverlap ==
    SplitDone =>
        /\ \A i \in 1..Len(result) : Compare(result[i].Span.Start, result[i].Span.End) < 0
        /\ \A i \in 1..Len(result) - 1 :
              Compare(result[i].Span.End, result[i + 1].Span.Start) <= 0

\* overlapping tokens split into three consecutive segments
C2_Witness ==
    /\ SplitDone
    /\ Len(result) >= 3
    /\ \E i, j \in 1..Len(tokens) : \E p \in Positions :
          i < j /\ Covers(tokens[i].Span, p) /\ Covers(tokens[j].Span, p)
    /\ \E i \in 1..Len(result) - 1 :
          Compare(result[i].Span.End, result[i + 1].Span.Start) = 0

\* the tokens of the list covering p, in list (activation) order
TokensAt(toks, p) == SelectSeq(toks, LAMBDA t : Covers(t.Span, p))

\* the last non-empty string of a sequence of strings, "" if there is none
LastNonEmpty(strs) ==
    LET ne == {i \in 1..Len(strs) : strs[i] # ""}
    IN IF ne = {} THEN "" ELSE strs[CHOOSE i \in ne : \A j \in ne : j <= i]

RECURSIVE Flatten(_)
Flatten(seqs) == IF seqs = <<>> THEN <<>> ELSE Head(seqs) \o Flatten(Tail(seqs))

\* what the union rule prescribes for a segment covering exactly the tokens T
Fidelity(seg, T) ==
    /\ seg.IsDefinition = (\E i \in 1..Len(T) : T[i].IsDefinition)
    /\ seg.IsReference = (\E i \in 1..Len(T) : T[i].IsReference)
    /\ seg.InlayText = Flatten([i \in 1..Len(T) |-> T[i].InlayText])
    /\ seg.Symbol = LastNonEmpty([i \in 1..Len(T) |-> T[i].Symbol])
    /\ seg.HighlightClass = LastNonEmpty([i \in 1..Len(T) |-> T[i].HighlightClass])

\* C3 (union fidelity): a segment covering position p carries the union, by
\* the merge rule, of exactly the input tokens that cover p.
C3_UnionFidelity ==
    SplitDone =>
        \A i \in 1..Len(result) : \A p \in Positions :
            Covers(result[i].Span, p) => Fidelity(result[i], TokensAt(tokens, p))

\* a segment under two tokens of which the later has no symbol, and a segment
\* under two tokens that both have one
C3_Witness ==
    /\ SplitDone
    /\ \E i \in 1..Len(result) : \E p \in Positions :
          /\ Covers(result[i].Span, p)
          /\ Len(TokensAt(tokens, p)) = 2
          /\ TokensAt(tokens, p)[1].Symbol = "a"
          /\ TokensAt(tokens, p)[2].Symbol = ""
          /\ result[i].Symbol = "a"
    /\ \E i \in 1..Len(result) : \E p \in Positions :
          /\ Covers(result[i].Span, p)
          /\ Len(TokensAt(tokens, p)) = 2
          /\ TokensAt(tokens, p)[1].Symbol = "a"
          /\ TokensAt(tokens, p)[2].Symbol = "b"
          /\ result[i].Symbol = "b"
          /\ result[i].InlayText = <<"d1", "d2">>

\* the list without its tokens of start == end
NonDegenerate(toks) == SelectSeq(toks, LAMBDA t : Compare(t.Span.Start, t.Span.End) # 0)

IsDegenerate(t) == Compare(t.Span.Start, t.Span.End) = 0

\* the merged annotation of a segment, without its span
AnnOf(seg) == [seg EXCEPT !.Span = Range(NoPos, NoPos)]

\* the annotations of the segments covering p (at most one segment does)
AnnsAt(segs, p) ==
    LET c == SelectSeq(segs, LAMBDA g : Covers(g.Span, p))
    IN [i \in 1..Len(c) |-> AnnOf(c[i])]

\* the positions at which a list has a segment boundary
Boundaries(segs) ==
    {segs[i].Span.Start : i \in 1..Len(segs)} \cup {segs[i].Span.End : i \in 1..Len(segs)}

\* C4 as stated (degenerate tokens are invisible): the result is the same
\* segment list as for the input without its start == end tokens.
C4_Original == SplitDone => result = MergeSplitTokens(NonDegenerate(tokens))

\* C4, amended: a start == end token adds no annotation and no coverage: at
\* every position the covering segment carries the same annotation as in the
\* result for the list without such tokens; the list differs at most by
\* segment boundaries at the positions of start == end tokens.
C4_DegenerateInvisible ==
    SplitDone =>
        LET ref == MergeSplitTokens(NonDegenerate(tokens)) IN
        /\ \A p \in Positions : AnnsAt(result, p) = AnnsAt(ref, p)
        /\ \A b \in Boundaries(result) \ Boundaries(ref) :
              \E i \in 1..Len(tokens) : IsDegenerate(tokens[i]) /\ tokens[i].Span.Start = b

\* an annotated start == end token strictly inside another token, which
\* splits that token's segment in two
C4_Witness ==
    /\ SplitDone
    /\ \E i, j \in 1..Len(tokens) :
          /\ IsDegenerate(tokens[j]) /\ tokens[j].Symbol = "b"
          /\ tokens[i].Symbol = "a"
          /\ Compare(tokens[i].Span.Start, tokens[j].Span.Start) < 0
          /\ Compare(tokens[j].Span.Start, tokens[i].Span.End) < 0
    /\ Len(result) = Len(MergeSplitTokens(NonDegenerate(tokens))) + 1

\* C5 as stated (idempotence): a sorted, pairwise non-overlapping list is
\* returned unchanged, and partitioning a result again returns it unchanged.
C5_Original ==
    SplitDone =>
        /\ NonOverlapping(tokens) => result = tokens
        /\ MergeSplitTokens(result) = result

\* C5, amended: a sorted, pairwise non-overlapping list without start == end
\* tokens is returned unchanged, and partitioning a result again returns it
\* unchanged.
C5_Idempotent ==
    SplitDone =>
        /\ (NonOverlapping(tokens) /\ NonDegenerate(tokens) = tokens) => result = tokens
        /\ MergeSplitTokens(result) = result

\* three non-overlapping tokens, two of them adjacent, returned as they are
C5_Witness ==
    /\ SplitDone
    /\ Len(tokens) = 3
    /\ NonOverlapping(tokens)
    /\ NonDegenerate(tokens) = tokens
    /\ Compare(tokens[1].Span.End, tokens[2].Span.Start) = 0
    /\ tokens[1].Symbol = "a" /\ tokens[2].Symbol = "" /\ tokens[3].Symbol = "b"
    /\ result = tokens

----------------------------------------------------------------------------
(* Properties of GenerateMDX *)

\* span inner lies inside span outer
Inside(inner, outer) ==
    Compare(outer.Start, inner.Start) <= 0 /\ Compare(inner.End, outer.End) <= 0

MDXDone == pc = "mdx_done"

\* the token runs written so far
TokenRuns == {k \in 1..Len(sb) : sb[k].kind = "token"}

\* C6 (comment priority): in the pipeline no run is rendered for a range of
\* a token whose span lies fully inside the span of a comment.
C6_CommentPriority ==
    \A k \in TokenRuns :
        ~ \E c \in 1..Len(comments), t \in 1..Len(tokens) :
              /\ Inside(tokens[t].Span, comments[c].Span)
              /\ Inside(sb[k].tok.Span, tokens[t].Span)

AllSpace(text) == \A i \in 1..Len(text) : IsSpace(text[i])

\* text is src or src without whitespace at its ends
TrimmedOf(text, src) ==
    \E i \in 0..Len(src), j \in 0..Len(src) :
        /\ i <= j
        /\ text = SubSeq(src, i + 1, j)
        /\ AllSpace(SubSeq(src, 1, i))
        /\ AllSpace(SubSeq(src, j + 1, Len(src)))

\* C7 (text conservation): at the end of a pipeline run the steps taken
\* account for the buffer from (0, 0) to its end, each piece once and in
\* order: no range is passed over without output, a token run carries the
\* text of its span, a literal run the text of its gap, trimmed of
\* whitespace only at the document start, after prose or before prose.
C7_TextConservation ==
    MDXDone =>
        /\ \A k \in 1..Len(hist) : hist[k].kind # "forced"
        /\ hist # <<>> =>
              /\ hist[1].from = Pos(0, 0)
              /\ hist[Len(hist)].to = FileEndPos(sourceLines)
        /\ hist = <<>> => FileEndPos(sourceLines) = Pos(0, 0)
        /\ \A k \in 1..Len(hist) - 1 : hist[k + 1].from = hist[k].to
        /\ \A k \in 1..Len(hist) :
              hist[k].kind = "gap" =>
                  LET src == getSourceFromSpan(sourceLines, Range(hist[k].from, hist[k].to))
                  IN /\ TrimmedOf(hist[k].text, src)
                     /\ (hist[k].open /\ ~hist[k].beforeComment) => hist[k].text = src
        /\ \A k \in TokenRuns :
              sb[k].text = getSourceFromSpan(sourceLines, sb[k].tok.Span)

\* the loop state after the gap step of the coming iteration
AfterGap == GapStep(sourceLines, segments, comments, MDXNow)

\* the next comment and the next segment both start at the cursor at which
\* the coming iteration resolves its event
TieAtCursor ==
    /\ pc = "mdx_loop"
    /\ tokenIdx < Len(segments)
    /\ commentIdx < Len(comments)
    /\ Compare(AfterGap.currentPos, comments[commentIdx + 1].Span.Start) = 0
    /\ Compare(AfterGap.currentPos, segments[tokenIdx + 1].Span.Start) = 0

\* C8 (comment first): when the next comment and the next segment both start
\* at the cursor, the step emits the comment's prose, moves the cursor to the
\* comment's end and renders no token.
C8_CommentFirst ==
    [][TieAtCursor =>
          /\ commentIdx' = commentIdx + 1
          /\ currentPos' = comments[commentIdx + 1].Span.End
          /\ sb'[Len(sb')] = Prose(comments[commentIdx + 1].Content)
          /\ \A k \in Len(sb) + 1..Len(sb') : sb'[k].kind # "token"
          /\ tokenIdx' >= tokenIdx]_vars

\* a comment resolved at a cursor where the pending segment starts as well,
\* that segment being rendered after the prose
C8_Witness ==
    /\ MDXDone
    /\ \E k \in 1..Len(hist) - 1 :
          /\ hist[k].kind = "comment"
          /\ hist[k].tokenStart = hist[k].from
          /\ hist[k].skipped = 0
          /\ hist[k + 1].kind = "token"

\* the lines of the buffer joined by newlines
RECURSIVE JoinLines(_)
JoinLines(lines) ==
    IF lines = <<>> THEN <<>>
    ELSE IF Len(lines) = 1 THEN lines[1]
    ELSE lines[1] \o <<"\n">> \o JoinLines(Tail(lines))

NoAnnotations == segments = <<>> /\ comments = <<>>

\* C9 as stated: without segments and comments the output is one code block
\* holding the whole buffer, untrimmed.
C9_Original ==
    (MDXDone /\ NoAnnotations) =>
        sb = <<WrapperStart, LiteralRun(JoinLines(sourceLines)), WrapperEnd>>

\* C9, amended: without segments and comments the output is one code block
\* holding the whole buffer with its leading whitespace trimmed (trailing
\* whitespace is kept), and nothing at all when the buffer holds only
\* whitespace.
C9_WholeBuffer ==
    (MDXDone /\ NoAnnotations) =>
        LET text == TrimLeft(JoinLines(sourceLines))
        IN sb = IF text = <<>> THEN <<>>
                ELSE <<WrapperStart, LiteralRun(text), WrapperEnd>>

\* a two-line buffer with whitespace at both ends, and a buffer of whitespace
C9_Witness ==
    /\ MDXDone /\ NoAnnotations
    /\ \/ /\ Len(sourceLines) = 2
          /\ sb = <<WrapperStart, LiteralRun(<<"a", "\n", " ">>), WrapperEnd>>
          /\ JoinLines(sourceLines) = <<"a", "\n", " ">>
       \/ /\ JoinLines(sourceLines) = <<" ", "\n", "a">>
          /\ sb = <<WrapperStart, LiteralRun(<<"a">>), WrapperEnd>>

\* an iteration advances the cursor or a read index, or leaves the loop
MDXProgress ==
    pc = "mdx_loop" =>
        \/ pc' = "mdx_done"
        \/ /\ pc' = "mdx_loop"
           /\ \/ tokenIdx' > tokenIdx
              \/ commentIdx' > commentIdx
              \/ Compare(currentPos, currentPos') < 0

\* the positions the cursor can take before the end of the buffer
CursorPositions ==
    {q \in {Pos(l, c) : l \in 0..Len(sourceLines) - 1,
                        c \in 0..Max(MaxChar, 2 * MaxLineLen) + 1} :
        Compare(q, FileEndPos(sourceLines)) < 0}

\* a bound on the steps of a run: between two advances of a read index the
\* cursor only moves forward, over the positions before the end of the buffer
StepBound ==
    2 * (Len(segments) + Len(comments) + 1) * (Cardinality(CursorPositions) + 1)

----------------------------------------------------------------------------
(* getSourceFromSpan called on its own *)

\* the characters of the buffers: no character occurs twice in a buffer, so
\* a text tells which positions it was taken from; "E" is a rune of two bytes
ExtAlphabet ==
    << <<"E", "b", "c">>, <<"d", "e", "f">>, <<"g", "h", "i">>, <<"j", "k", "l">> >>

\* the buffers of at most MaxExtLines lines of at most MaxExtLen characters
ExtBuffers ==
    {[l \in 1..Len(lens) |-> SubSeq(ExtAlphabet[l], 1, lens[l])] :
        lens \in SeqsUpTo(0..MaxExtLen, MaxExtLines)}

\* positions inside and outside of every buffer, negative ones included
ExtPositions == {Pos(l, c) : l \in -1..MaxExtLines, c \in -1..MaxExtLen + 1}

ExtSpans == {Range(s, e) : s \in ExtPositions, e \in ExtPositions}

getSourceFromSpanCall ==
    /\ pc = "ext_call"
    /\ extText' = getSourceFromSpan(sourceLines, extSpan)
    /\ pc' = "ext_done"
    /\ UNCHANGED <<splitVars, mdxInputs, mdxVars, extSpan, unsorted, callVars, lspVars>>
    /\ UNCHANGED mainVars

InitExtract ==
    /\ pc = "ext_call"
    /\ sourceLines \in ExtBuffers
    /\ extSpan \in ExtSpans
    /\ extText = <<>>
    /\ unsorted = <<>>
    /\ LspIdle
    /\ CallIdle
    /\ tokens = <<>>
    /\ comments = <<>>
    /\ SplitIdle
    /\ MDXIdle
    /\ MainIdle

NextExtract == getSourceFromSpanCall

\* getSourceFromSpan on every buffer and every span
SpecExtract == InitExtract /\ [][NextExtract]_vars

----------------------------------------------------------------------------
(* SortTokens called on its own *)

\* tokens of two kinds with any span, so that a list can hold two different
\* tokens of the same span
SortInputs ==
    AnyTokens \cup {TokenInfo("b", TRUE, FALSE, "variable", <<"d2">>, sp) : sp \in ValidSpans}

InitSort ==
    /\ pc = "sort"
    /\ tokens \in SeqsUpTo(SortInputs, MaxSortTokens)
    /\ SplitIdle
    /\ sourceLines = <<>>
    /\ comments = <<>>
    /\ MDXIdle
    /\ ExtIdle
    /\ MainIdle

NextSort == PipelineSort

\* SortTokens on every token list
SpecSort == InitSort /\ [][NextSort]_vars

----------------------------------------------------------------------------
(* main: the analyzer goroutines, then the pipeline *)

\* what an analysis can return when it succeeds
ScipResults ==
    {<<>>, <<TokenInfo("a", FALSE, TRUE, "", <<"d1">>, Range(Pos(0, 0), Pos(0, 1)))>>}

HighlightResults ==
    {<<>>, <<TokenInfo("", FALSE, FALSE, "function", <<>>, Range(Pos(0, 0), Pos(1, 0)))>>}

CommentResults == {<<>>, <<CommentInfo("c", Range(Pos(1, 0), Pos(1, 1)))>>}

\* how an analysis can end: scipAnalyzer.Analyze returns no error
Outcomes(a) == IF a = "scip" THEN {"ok", "panic"} ELSE {"ok", "err", "panic"}

\* wg.Go for one analyzer, if it is configured; then on to the next statement
Spawn(a, configured, next) ==
    /\ IF configured
       THEN /\ goPc' = [goPc EXCEPT ![a] = "analyze"]
            /\ wg' = wg + 1
       ELSE UNCHANGED <<goPc, wg>>
    /\ pc' = next
    /\ UNCHANGED <<splitVars, mdxInputs, mdxVars, extVars, useScip, useLang, outcome, errs,
                   scipTokens, highlightTokens, commentTokens, written, stderr, mu,
                   appendArg, doneOrder>>

MainGoScip == pc = "go_scip" /\ Spawn("scip", useScip, "go_highlight")

MainGoHighlight == pc = "go_highlight" /\ Spawn("highlight", useLang, "go_comment")

MainGoComment == pc = "go_comment" /\ Spawn("comment", useLang, "wait")

\* a goroutine runs its analysis: it stores the result, or goes on to addError
\* with the error returned or the panic recovered
GoAnalyze(a) ==
    /\ goPc[a] = "analyze"
    /\ \E o \in Outcomes(a) :
          /\ outcome' = [outcome EXCEPT ![a] = o]
          /\ goPc' = [goPc EXCEPT ![a] = IF o = "ok" THEN "return" ELSE "addError"]
          /\ IF o = "ok" /\ a = "scip"
             THEN scipTokens' \in ScipResults
             ELSE UNCHANGED scipTokens
          /\ IF o = "ok" /\ a = "highlight"
             THEN highlightTokens' \in HighlightResults
             ELSE UNCHANGED highlightTokens
          /\ IF o = "ok" /\ a = "comment"
             THEN commentTokens' \in CommentResults
             ELSE UNCHANGED commentTokens
    /\ UNCHANGED <<pc, splitVars, mdxInputs, mdxVars, extVars, useScip, useLang, wg, errs,
                   written, stderr, mu, appendArg, doneOrder>>

\* addError, mu.Lock taken without waiting for the mutex
GoLock_noMutex(a) ==
    /\ goPc[a] = "addError"
    /\ mu' = a
    /\ goPc' = [goPc EXCEPT ![a] = "read"]
    /\ UNCHANGED <<pc, splitVars, mdxInputs, mdxVars, extVars, useScip, useLang, outcome, wg,
                   errs, scipTokens, highlightTokens, commentTokens, written, stderr,
                   appendArg, doneOrder>>

\* addError, mu.Lock: blocks until the mutex is free
GoLock(a) ==
    /\ goPc[a] = "addError"
    /\ mu = "free"
    /\ mu' = a
    /\ goPc' = [goPc EXCEPT ![a] = "read"]
    /\ UNCHANGED <<pc, splitVars, mdxInputs, mdxVars, extVars, useScip, useLang, outcome, wg,
                   errs, scipTokens, highlightTokens, commentTokens, written, stderr,
                   appendArg, doneOrder>>

\* addError, errs = append(errs, err): the read of errs
GoReadErrs(a) ==
    /\ goPc[a] = "read"
    /\ appendArg' = [appendArg EXCEPT ![a] = errs]
    /\ goPc' = [goPc EXCEPT ![a] = "write"]
    /\ UNCHANGED <<pc, splitVars, mdxInputs, mdxVars, extVars, useScip, useLang, outcome, wg,
                   errs, scipTokens, highlightTokens, commentTokens, written, stderr, mu,
                   doneOrder>>

\* addError, errs = append(errs, err): the write of errs
GoWriteErrs(a) ==
    /\ goPc[a] = "write"
    /\ errs' = Append(appendArg[a], a)
    /\ goPc' = [goPc EXCEPT ![a] = "unlock"]
    /\ UNCHANGED <<pc, splitVars, mdxInputs, mdxVars, extVars, useScip, useLang, outcome, wg,
                   scipTokens, highlightTokens, commentTokens, written, stderr, mu,
                   appendArg, doneOrder>>

\* addError, the deferred mu.Unlock
GoUnlock(a) ==
    /\ goPc[a] = "unlock"
    /\ mu' = "free"
    /\ goPc' = [goPc EXCEPT ![a] = "return"]
    /\ UNCHANGED <<pc, splitVars, mdxInputs, mdxVars, extVars, useScip, useLang, outcome, wg,
                   errs, scipTokens, highlightTokens, commentTokens, written, stderr,
                   appendArg, doneOrder>>

\* addError: append to errs under the mutex
GoAddError(a) == GoLock(a) \/ GoReadErrs(a) \/ GoWriteErrs(a) \/ GoUnlock(a)

\* the goroutine's function returns: wg.Go calls Done
GoReturn(a) ==
    /\ goPc[a] = "return"
    /\ goPc' = [goPc EXCEPT ![a] = "done"]
    /\ wg' = wg - 1
    /\ doneOrder' = Append(doneOrder, a)
    /\ UNCHANGED <<pc, splitVars, mdxInputs, mdxVars, extVars, useScip, useLang, outcome,
                   errs, scipTokens, highlightTokens, commentTokens, written, stderr, mu,
                   appendArg>>

\* main going from wg.Wait to the next statement whatever the counter is
MainWait_noWait ==
    /\ pc = "wait"
    /\ pc' = "check"
    /\ UNCHANGED <<splitVars, mdxInputs, mdxVars, extVars, mainVars>>

\* wg.Wait: blocks until the counter is zero
MainWait ==
    /\ pc = "wait"
    /\ wg = 0
    /\ pc' = "check"
    /\ UNCHANGED <<splitVars, mdxInputs, mdxVars, extVars, mainVars>>

\* the check of errs, with the token lists merged in the order in which the
\* goroutines returned
MainCheck_completionOrder ==
    /\ pc = "check"
    /\ IF Len(errs) > 0
       THEN /\ stderr' = stderr \o [i \in 1..Len(errs) |-> <<"Error: Analysis failed", errs[i]>>]
            /\ pc' = "exit_1"
            /\ UNCHANGED <<tokens, comments>>
       ELSE /\ tokens' = Flatten([i \in 1..Len(doneOrder) |->
                                    IF doneOrder[i] = "scip" THEN scipTokens
                                    ELSE IF doneOrder[i] = "highlight" THEN highlightTokens
                                    ELSE <<>>])
            /\ comments' = commentTokens
            /\ pc' = "sort"
            /\ UNCHANGED stderr
    /\ UNCHANGED <<result, activeTokens, curPos, index, splitErr, sourceLines, mdxVars,
                   extVars, useScip, useLang, goPc, outcome, wg, errs, scipTokens,
                   highlightTokens, commentTokens, written, mu, appendArg, doneOrder>>

\* the check of errs: print them and exit with status 1, or merge the results
MainCheck ==
    /\ pc = "check"
    /\ IF Len(errs) > 0
       THEN /\ stderr' = stderr \o [i \in 1..Len(errs) |-> <<"Error: Analysis failed", errs[i]>>]
            /\ pc' = "exit_1"
            /\ UNCHANGED <<tokens, comments>>
       ELSE /\ tokens' = scipTokens \o highlightTokens
            /\ comments' = commentTokens
            /\ pc' = "sort"
            /\ UNCHANGED stderr
    /\ UNCHANGED <<result, activeTokens, curPos, index, splitErr, sourceLines, mdxVars,
                   extVars, useScip, useLang, goPc, outcome, wg, errs, scipTokens,
                   highlightTokens, commentTokens, written, mu, appendArg, doneOrder>>

\* os.WriteFile of the generated output
MainWrite ==
    /\ pc = "mdx_done"
    /\ written' = TRUE
    /\ pc' = "written"
    /\ UNCHANGED <<splitVars, mdxInputs, mdxVars, extVars, useScip, useLang, goPc, outcome,
                   wg, errs, scipTokens, highlightTokens, commentTokens, stderr, mu,
                   appendArg, doneOrder>>

InitMain ==
    /\ pc = "go_scip"
    /\ useScip \in BOOLEAN
    /\ useLang \in BOOLEAN
    /\ goPc = [a \in Analyzers |-> "off"]
    /\ outcome = [a \in Analyzers |-> "none"]
    /\ wg = 0
    /\ errs = <<>>
    /\ scipTokens = <<>>
    /\ highlightTokens = <<>>
    /\ commentTokens = <<>>
    /\ written = FALSE
    /\ stderr = <<>>
    /\ mu = "free"
    /\ appendArg = [a \in Analyzers |-> <<>>]
    /\ doneOrder = <<>>
    /\ sourceLines = << <<"a">>, <<"a">> >>
    /\ tokens = <<>>
    /\ comments = <<>>
    /\ SplitIdle
    /\ MDXIdle
    /\ ExtIdle

NextMain ==
    \/ MainGoScip \/ MainGoHighlight \/ MainGoComment
    \/ \E a \in Analyzers : GoAnalyze(a) \/ GoAddError(a) \/ GoReturn(a)
    \/ MainWait \/ MainCheck
    \/ PipelineSort
    \/ MergeSplitEnter \/ MergeSplitBreak \/ MergeSplitIterate
    \/ PipelineGenerate
    \/ GenerateMDXEnter \/ GenerateMDXBreak \/ GenerateMDXIterate
    \/ MainWrite

\* a run of main from the start of the analyses to the written file
SpecMain == InitMain /\ [][NextMain]_vars

----------------------------------------------------------------------------
(* GenerateMDX on one segment of any annotation *)

RenderTokens ==
    {TokenInfo(sym, isRef, isDef, class, inlay, sp) :
        sym \in {"", "s"}, isRef \in BOOLEAN, isDef \in BOOLEAN,
        class \in {"", "function"}, inlay \in {<<>>, <<"d1">>}, sp \in ValidSpans}

InitRender ==
    /\ pc = "mdx_call"
    /\ sourceLines \in FullBuffers
    /\ comments = <<>>
    /\ segments \in [1..1 -> RenderTokens]
    /\ tokens = <<>>
    /\ SplitIdle
    /\ currentPos = NoPos
    /\ tokenIdx = 0
    /\ commentIdx = 0
    /\ inCodeBlock = FALSE
    /\ sb = <<>>
    /\ hist = <<>>
    /\ ExtIdle
    /\ MainIdle

\* GenerateMDX on every segment the partitioner can produce, one at a time
SpecRender == InitRender /\ [][NextMDX]_vars

----------------------------------------------------------------------------
(* Further properties of MergeSplitTokens *)

SplitNow == LoopState(result, activeTokens, curPos, index, FALSE)

\* the work left to the loop: each token is activated once and dropped once
SplitMeasure(st) == 2 * (Len(tokens) - st.index) + Len(st.activeTokens)

\* C11 (termination of MergeSplitTokens): on every token list each iteration
\* of the loop lessens the work left (tokens still to activate, tokens still
\* active), findNextSplit never returns its error, and the loop is left only
\* with an empty active list and every token activated.
C11_Terminates ==
    /\ ~splitErr
    /\ pc = "split_done" => (activeTokens = <<>> /\ index >= Len(tokens))
    /\ (pc = "split_loop" /\ ~LoopExit(tokens, SplitNow)) =>
          LET st == LoopBody(tokens, SplitNow)
          IN ~st.err /\ SplitMeasure(st) < SplitMeasure(SplitNow)

\* a finished run on an unsorted list of three tokens, one of them inverted
C11_Witness ==
    /\ pc = "split_done"
    /\ Len(tokens) = 3
    /\ ~IsSorted(tokens)
    /\ \E i \in 1..3 : Compare(tokens[i].Span.End, tokens[i].Span.Start) < 0
    /\ index = 3 /\ activeTokens = <<>>

\* the tokens of the list whose span has start <= end
WellFormed(toks) == SelectSeq(toks, LAMBDA t : Compare(t.Span.Start, t.Span.End) <= 0)

HasInverted(toks) == WellFormed(toks) # toks

\* C12 (malformed spans): on a sorted list holding a token whose end is before
\* its start, MergeSplitTokens returns no error, every segment lies inside
\* the union of the spans of the well-formed tokens, and the segments are in
\* ascending order and pairwise non-overlapping.
C12_MalformedSpans ==
    (pc = "split_done" /\ IsSorted(tokens) /\ HasInverted(tokens)) =>
        /\ ~splitErr
        /\ Covered(result) \subseteq Covered(WellFormed(tokens))
        /\ \A i \in 1..Len(result) - 1 :
              Compare(result[i].Span.End, result[i + 1].Span.Start) <= 0

----------------------------------------------------------------------------
(* Properties of getSourceFromSpan *)

ExtDone == pc = "ext_done"

\* C13 (inverted and zero-length spans): getSourceFromSpan returns the empty
\* text for every span whose end is before its start, on the same line or
\* on an earlier line, and for every span whose end is its start.
C13_EmptyForInverted ==
    (ExtDone /\ Compare(extSpan.End, extSpan.Start) <= 0) => extText = <<>>

\* the number of characters of the joined buffer before position p
RECURSIVE Offset(_, _)
Offset(lines, p) ==
    IF p.Line = 0 THEN p.Character
    ELSE Len(lines[1]) + 1 + Offset(Tail(lines), Pos(p.Line - 1, p.Character))

\* position p lies inside the buffer: on one of its lines, at a column from
\* 0 to the length of that line
InBuffer(lines, p) ==
    /\ 0 <= p.Line /\ p.Line < Len(lines)
    /\ 0 <= p.Character /\ p.Character <= Len(lines[p.Line + 1])

\* the characters from s.Start (inclusive) to s.End (exclusive) of the buffer
\* whose lines are joined by one newline each; empty if the end is not after
\* the start
ExactText(lines, s) ==
    IF Compare(s.Start, s.End) >= 0 THEN <<>>
    ELSE SubSeq(JoinLines(lines), Offset(lines, s.Start) + 1, Offset(lines, s.End))

ClampTo(x, lo, hi) == IF x < lo THEN lo ELSE IF x > hi THEN hi ELSE x

\* the span with an end line past the buffer taken as the last line and each
\* column brought into 0..length of its line
ClampedSpan(lines, s) ==
    LET endLine == ClampTo(s.End.Line, 0, Len(lines) - 1)
    IN Range(Pos(s.Start.Line,
                 ClampTo(s.Start.Character, 0, Len(lines[s.Start.Line + 1]))),
             Pos(endLine, ClampTo(s.End.Character, 0, Len(lines[endLine + 1]))))

\* C14 (clamping): for a span with start <= end whose start line is a line
\* of the buffer, getSourceFromSpan returns the text of the clamped span:
\* columns below 0 taken as 0, columns above the line's length taken as that
\* length, an end line past the buffer taken as the last line.
C14_Clamps ==
    (/\ ExtDone
     /\ Compare(extSpan.Start, extSpan.End) <= 0
     /\ 0 <= extSpan.Start.Line /\ extSpan.Start.Line < Len(sourceLines)) =>
        extText = ExactText(sourceLines, ClampedSpan(sourceLines, extSpan))

\* C15 (exact text): for a span with start <= end whose positions lie inside
\* the buffer, getSourceFromSpan returns exactly the code points from start
\* (inclusive) to end (exclusive), columns counted in code points, the lines
\* joined by one newline each.
C15_ExactText ==
    (/\ ExtDone
     /\ Compare(extSpan.Start, extSpan.End) <= 0
     /\ InBuffer(sourceLines, extSpan.Start)
     /\ InBuffer(sourceLines, extSpan.End)) =>
        extText = ExactText(sourceLines, extSpan)

\* a span over three lines that starts behind a two-byte rune and ends
\* inside the last line
C15_Witness ==
    /\ ExtDone
    /\ sourceLines = << <<"E", "b">>, <<"d", "e">>, <<"g", "h">> >>
    /\ extSpan = Range(Pos(0, 1), Pos(2, 1))
    /\ extText = <<"b", "\n", "d", "e", "\n", "g">>

----------------------------------------------------------------------------
(* Properties of SortTokens *)

\* how often token t occurs in the list
Occurrences(toks, t) == Cardinality({i \in 1..Len(toks) : toks[i] = t})

\* the two lists hold the same tokens, each as often
SameTokens(a, b) ==
    /\ Len(a) = Len(b)
    /\ \A i \in 1..Len(a) : Occurrences(a, a[i]) = Occurrences(b, a[i])

Sorted == pc = "split_call"

----------------------------------------------------------------------------
(* Properties of main *)

\* main is at or past the sorting of the collected tokens
PostProcessing ==
    pc \in {"sort", "split_call", "split_loop", "split_done", "mdx_call", "mdx_loop",
            "mdx_done", "mdx_panic", "written"}

AnalysisFailed == \E a \in Analyzers : outcome[a] \in {"err", "panic"}

\* C17 (analyses first): sorting, MergeSplitTokens and the generation run
\* only when every analyzer goroutine that was started has returned and errs
\* has been found empty; if an analysis returned an error or panicked, main
\* never reaches them, writes no file, and can only end with exit status 1.
C17_AnalysesFirst ==
    /\ PostProcessing =>
          /\ \A a \in Analyzers : goPc[a] \in {"off", "done"}
          /\ wg = 0
          /\ errs = <<>>
          /\ ~AnalysisFailed
    /\ AnalysisFailed => (~written /\ ~PostProcessing)
    /\ (AnalysisFailed /\ ~ENABLED NextMain) => pc = "exit_1"

\* main ended with status 1 after one analysis returned an error and another
\* panicked, while the third had stored a token
C17_Witness ==
    /\ pc = "exit_1"
    /\ outcome["highlight"] = "err"
    /\ outcome["comment"] = "panic"
    /\ outcome["scip"] = "ok"
    /\ scipTokens # <<>>
    /\ Len(errs) = 2
    /\ ~written

----------------------------------------------------------------------------
(* Properties of the rendering *)

\* C18 (rendering precedence): a token is written as a definition anchor if
\* IsDefinition is set; else as a reference link if IsReference is set; else
\* as a span of its class if HighlightClass is not empty; else as plain text.
C18_Precedence ==
    \A k \in TokenRuns :
        LET t == sb[k].tok
            m == sb[k].jsx.inner
        IN /\ t.IsDefinition =>
                 (m.elem = "span" /\ m.id = t.Symbol /\ m.href = ""
                  /\ m.className = t.HighlightClass)
           /\ (~t.IsDefinition /\ t.IsReference) =>
                 (m.elem = "a" /\ m.href = t.Symbol /\ m.id = ""
                  /\ m.className = t.HighlightClass)
           /\ (~t.IsDefinition /\ ~t.IsReference /\ t.HighlightClass # "") =>
                 (m.elem = "span" /\ m.id = "" /\ m.href = ""
                  /\ m.className = t.HighlightClass)
           /\ (~t.IsDefinition /\ ~t.IsReference /\ t.HighlightClass = "") =>
                 m = [elem |-> "span", id |-> "", href |-> "", className |-> "cire_text"]

\* a rendered segment with IsDefinition and IsReference both set, written as
\* a definition anchor
C18_Witness ==
    /\ MDXDone
    /\ \E k \in TokenRuns :
          /\ sb[k].tok.IsDefinition /\ sb[k].tok.IsReference
          /\ sb[k].tok.HighlightClass = "function" /\ sb[k].tok.Symbol = "s"
          /\ sb[k].text # <<>>
          /\ sb[k].jsx.inner =
                [elem |-> "span", id |-> "s", href |-> "", className |-> "function"]

----------------------------------------------------------------------------
(* Properties of the order of ties *)

\* C19 (tie-break determinism): every ordering of the same tokens that is
\* sorted by (start, end), that is every ordering that differs from the
\* given one only among tokens of identical start and end, gives the same
\* segment list, merged Symbol, HighlightClass and InlayText included.
C19_TieBreakDeterminism ==
    SplitDone => \A other \in SortTokens(tokens) : MergeSplitTokens(other) = result

----------------------------------------------------------------------------
(* Frame of MergeSplitTokens and GenerateMDX *)

----------------------------------------------------------------------------
(* Properties of the output path *)

\* C21 (default output path): without an -output flag the output path is the
\* path of the source file with the extension of the format appended: .mdx
\* for format mdx, .md for format markdown.
C21_DefaultOutputPath ==
    (pc = "resolve_done" /\ cfg.OutPath = <<>>) =>
        outPath = Append(filepathDir(cfg.AbsSrcPath),
                         filepathBase(cfg.AbsSrcPath)
                         \o (IF cfg.Format = "mdx" THEN ExtMdx ELSE ExtMd))

----------------------------------------------------------------------------
(* Further properties of GenerateMDX *)

\* C22 (loop exit): GenerateMDX leaves its loop only with the cursor at or
\* past the end of the buffer and with both read indices at the end of their
\* lists, so that every segment and every comment has been written or
\* skipped inside a comment.
C22_LoopExit ==
    MDXDone =>
        /\ Compare(currentPos, FileEndPos(sourceLines)) >= 0
        /\ tokenIdx >= Len(segments)
        /\ commentIdx >= Len(comments)

\* the number of code blocks open after the first k pieces of the output
Depth(out, k) ==
    Cardinality({j \in 1..k : out[j] = WrapperStart})
    - Cardinality({j \in 1..k : out[j] = WrapperEnd})

\* C23 (code blocks are delimited): on every input, a CodeWrapperStart is
\* written only while no code block is open and a CodeWrapperEnd only while
\* one is, so that each start is matched by exactly one later end; prose is
\* written only while no code block is open, literal and token runs only
\* inside one; inCodeBlock tells whether one is open; and when GenerateMDX
\* returns, by either exit of its loop, none is open.
C23_Delimited ==
    /\ \A k \in 1..Len(sb) :
          /\ sb[k] = WrapperStart => Depth(sb, k - 1) = 0
          /\ sb[k] = WrapperEnd => Depth(sb, k - 1) = 1
          /\ sb[k].kind = "prose" => Depth(sb, k - 1) = 0
          /\ sb[k].kind \in {"literal", "token"} => Depth(sb, k - 1) = 1
    /\ pc = "mdx_loop" => (inCodeBlock <=> Depth(sb, Len(sb)) = 1)
    /\ MDXDone => Depth(sb, Len(sb)) = 0

\* a run that closed a code block for a comment's prose, opened another one
\* for a token, and left the loop by its inner break with a segment pending
C23_Witness ==
    /\ MDXDone
    /\ tokenIdx < Len(segments)
    /\ Len(sb) = 7
    /\ sb[1] = WrapperStart /\ sb[2].kind = "literal" /\ sb[3] = WrapperEnd
    /\ sb[4].kind = "prose"
    /\ sb[5] = WrapperStart /\ sb[6].kind = "token" /\ sb[7] = WrapperEnd

\* C24 (no forced advance on well-formed input): in a run of the pipeline,
\* where the segments are the result of MergeSplitTokens on sorted tokens with
\* start <= end, the comments are sorted by start and pairwise
\* non-overlapping, and every span lies inside the buffer, GenerateMDX never
\* takes its forced advance.
C24_NoForcedAdvance == \A k \in 1..Len(hist) : hist[k].kind # "forced"

\* the step just taken by the loop was the forced advance
ForcedStep ==
    /\ pc = "mdx_loop"
    /\ Len(hist') > Len(hist)
    /\ hist'[Len(hist')].kind = "forced"

\* C25 (the forced advance is observable): a step of GenerateMDX that takes
\* the forced advance does not abort the run and writes a warning to the
\* program's error output.
C25_FallbackObservable == [][ForcedStep => (pc' # "mdx_panic" /\ stderr' # stderr)]_vars

\* valid spans in ascending order, each ending no later than the next starts
SortedNonOverlapping(segs) ==
    /\ \A i \in 1..Len(segs) : Compare(segs[i].Span.Start, segs[i].Span.End) <= 0
    /\ NonOverlapping(segs)

\* the step just taken by the loop wrote the prose of a comment
CommentStep ==
    /\ pc = "mdx_loop"
    /\ Len(hist') > Len(hist)
    /\ hist'[Len(hist')].kind = "comment"

\* C26 (segments inside a comment): with a sorted, non-overlapping segment
\* list, the step that writes the prose of a comment discards exactly the
\* pending segments whose end is at or before the comment's end, writes no
\* token run, and leaves the first segment ending after the comment's end
\* pending; no segment discarded by a comment is rendered later.
C26_SkipInsideComment ==
    /\ [][(CommentStep /\ SortedNonOverlapping(segments)) =>
            LET commentEnd == comments[commentIdx + 1].Span.End IN
            /\ tokenIdx' >= tokenIdx
            /\ \A i \in tokenIdx + 1..Len(segments) :
                  Compare(segments[i].Span.End, commentEnd) <= 0 <=> i <= tokenIdx'
            /\ tokenIdx' < Len(segments) =>
                  Compare(segments[tokenIdx' + 1].Span.End, commentEnd) > 0
            /\ \A k \in Len(sb) + 1..Len(sb') : sb'[k].kind # "token"]_vars
    /\ [](\A k \in 1..Len(hist) : \A j \in k + 1..Len(hist) :
              (hist[k].kind = "comment" /\ hist[j].kind = "token") =>
                  hist[j].idx >= hist[k].skipTo)

\* a comment whose step discarded the segment inside it and left the next
\* one pending, which was rendered afterwards
C26_Witness ==
    /\ MDXDone
    /\ SortedNonOverlapping(segments)
    /\ Len(segments) = 2
    /\ Len(hist) >= 2
    /\ \E k \in 1..Len(hist) - 1 :
          /\ hist[k].kind = "comment" /\ hist[k].skipped = 1
          /\ hist[k + 1].kind = "token" /\ hist[k + 1].idx = 1
          /\ Compare(segments[1].Span.Start, segments[1].Span.End) < 0

\* the coming iteration has a gap to process
GapAhead ==
    /\ pc = "mdx_loop"
    /\ ~MDXLoopExit(sourceLines, segments, comments, MDXNow)
    /\ Compare(currentPos, GapEnd(sourceLines, segments, comments, MDXNow)) < 0

\* nothing has been written since the start of the document or since the
\* last prose
FirstContent == sb = <<>> \/ sb[Len(sb)].kind = "prose"

\* the text of the gap as the claim trims it
TrimmedGap ==
    LET gapEnd == GapEnd(sourceLines, segments, comments, MDXNow)
        raw == getSourceFromSpan(sourceLines, Range(currentPos, gapEnd))
        lead == IF FirstContent THEN TrimLeft(raw) ELSE raw
    IN IF commentIdx < Len(comments) /\ gapEnd = comments[commentIdx + 1].Span.Start
       THEN TrimRight(lead) ELSE lead

\* C27 (gap trimming): the text of a gap loses its leading whitespace exactly
\* when nothing has been written since the document start or the last prose,
\* and its trailing whitespace exactly when the gap ends where the next
\* comment starts; it is written as a literal run, after a CodeWrapperStart
\* if no code block is open, exactly when the trimmed text is not empty; in
\* every case the cursor goes to gapEnd, where the event is then resolved.
C27_GapTrimming ==
    [][GapAhead =>
          LET gapEnd == GapEnd(sourceLines, segments, comments, MDXNow)
              new == SubSeq(sb', Len(sb) + 1, Len(sb'))
              head == IF TrimmedGap = <<>> THEN <<>>
                      ELSE (IF FirstContent THEN <<WrapperStart>> ELSE <<>>)
                           \o <<LiteralRun(TrimmedGap)>>
          IN /\ Len(new) >= Len(head)
             /\ SubSeq(new, 1, Len(head)) = head
             /\ \A k \in Len(head) + 1..Len(new) : new[k].kind # "literal"
             /\ Len(hist') > Len(hist)
             /\ hist'[Len(hist) + 1].kind = "gap"
             /\ hist'[Len(hist) + 1].from = currentPos
             /\ hist'[Len(hist) + 1].to = gapEnd
             /\ Len(hist') > Len(hist) + 1 => hist'[Len(hist) + 2].from = gapEnd
             /\ Len(hist') = Len(hist) + 1 => currentPos' = gapEnd]_vars

\* a gap at the document start that lost its trailing newline before a
\* comment, and a gap of whitespace after the prose that was not written
C27_Witness ==
    /\ MDXDone
    /\ \E k \in 1..Len(hist) : \E j \in k + 1..Len(hist) :
          /\ hist[k].kind = "gap" /\ ~hist[k].open /\ hist[k].beforeComment
          /\ hist[k].text = <<"a">>
          /\ getSourceFromSpan(sourceLines, Range(hist[k].from, hist[k].to)) = <<"a", "\n">>
          /\ hist[j].kind = "gap" /\ ~hist[j].open /\ hist[j].text = <<>>
          /\ getSourceFromSpan(sourceLines, Range(hist[j].from, hist[j].to)) = <<" ">>
    /\ \E k \in 1..Len(sb) : sb[k] = LiteralRun(<<"a">>)

----------------------------------------------------------------------------
(* The active list of MergeSplitTokens *)

\* C28 (active list): at the start of every iteration of MergeSplitTokens on
\* a sorted list of tokens with start <= end, the active list holds exactly
\* the tokens activated so far whose span contains curPos (start <= curPos <
\* end), in the order of the list; so a deactivation leaves the survivors in
\* their order.
C28_ActiveList ==
    pc = "split_loop" =>
        activeTokens = SelectSeq(SubSeq(tokens, 1, index), LAMBDA t : Covers(t.Span, curPos))

\* the second of three tokens has just been dropped from the middle of the
\* active list, the first and the third remain, in this order
C28_Witness ==
    /\ pc = "split_loop"
    /\ Len(tokens) = 3
    /\ index = 3
    /\ Compare(tokens[2].Span.Start, tokens[2].Span.End) < 0
    /\ Compare(tokens[2].Span.End, curPos) = 0
    /\ activeTokens = <<tokens[1], tokens[3]>>
    /\ tokens[1].Symbol # tokens[3].Symbol

----------------------------------------------------------------------------
(* Properties of generateMarkdownCode *)

\* the text an escaped text stands for: each of the five entities read back
\* as its character
RECURSIVE unescapeHTML(_)
unescapeHTML(html) ==
    LET starts(ent) == Len(html) >= Len(ent) /\ SubSeq(html, 1, Len(ent)) = ent
        rest(ent) == SubSeq(html, Len(ent) + 1, Len(html))
    IN IF html = <<>> THEN <<>>
       ELSE IF starts(EntAmp) THEN <<"&">> \o unescapeHTML(rest(EntAmp))
       ELSE IF starts(EntLt) THEN <<"<">> \o unescapeHTML(rest(EntLt))
       ELSE IF starts(EntGt) THEN <<">">> \o unescapeHTML(rest(EntGt))
       ELSE IF starts(EntQuot) THEN <<"\"">> \o unescapeHTML(rest(EntQuot))
       ELSE IF starts(EntApos) THEN <<"'">> \o unescapeHTML(rest(EntApos))
       ELSE <<Head(html)>> \o unescapeHTML(Tail(html))

\* the unescaped text of the first n pieces of the output
OutputText(n) == Flatten([k \in 1..n |-> unescapeHTML(sb[k].html)])

\* the places of the token pieces in the output, in ascending order
TokenPieces == SelectSeq([k \in 1..Len(sb) |-> k], LAMBDA k : sb[k].kind = "token")

SpansInBuffer ==
    \A i \in 1..Len(segments) :
        InBuffer(sourceLines, segments[i].Span.Start) /\ InBuffer(sourceLines, segments[i].Span.End)

\* C29 (markdown text conservation): for a sorted, pairwise non-overlapping
\* token list whose spans lie inside the buffer, the output of
\* generateMarkdownCode, unescaped, is the whole buffer once; it holds one
\* piece per token, in list order, each with the text of its token's span
\* and preceded by exactly the text of the buffer before that span; an
\* annotated token's text is inside the element of its annotation.
C29_MarkdownConservation ==
    (pc = "md_done" /\ SpansInBuffer) =>
        /\ OutputText(Len(sb)) = JoinLines(sourceLines)
        /\ Len(TokenPieces) = Len(segments)
        /\ \A i \in 1..Len(segments) :
              LET k == TokenPieces[i]
                  t == segments[i]
              IN /\ sb[k].tok = t
                 /\ unescapeHTML(sb[k].html) = ExactText(sourceLines, t.Span)
                 /\ OutputText(k - 1) = ExactText(sourceLines, Range(Pos(0, 0), t.Span.Start))
                 /\ t.IsDefinition =>
                       (sb[k].markup.elem = "span" /\ unescapeHTML(sb[k].markup.id) = <<t.Symbol>>)
                 /\ (~t.IsDefinition /\ t.IsReference) =>
                       (sb[k].markup.elem = "a" /\ unescapeHTML(sb[k].markup.href) = <<t.Symbol>>)
                 /\ (~t.IsDefinition /\ ~t.IsReference /\ t.HighlightClass # "") =>
                       (sb[k].markup.elem = "span" /\ sb[k].markup.class = <<t.HighlightClass>>)

\* a definition over "<" on the first line and a reference on the second,
\* with the newline between them written as gap text
C29_Witness ==
    /\ pc = "md_done"
    /\ SpansInBuffer
    /\ Len(sb) = 3
    /\ sb[1].kind = "token" /\ sb[1].html = EntLt /\ sb[1].markup.elem = "span"
    /\ sb[1].markup.id = EntLt
    /\ sb[2] = TextPiece(<<"\n">>)
    /\ sb[3].kind = "token" /\ sb[3].markup.elem = "a" /\ sb[3].html = <<"&", "a", "m", "p", ";">>

----------------------------------------------------------------------------
(* Properties of isCommentStandalone *)

\* C30 (standalone comments): isCommentStandalone returns true if and only
\* if every character before the comment that is on the comment's line, that
\* is with no newline between it and the comment, is whitespace.
C30_Standalone ==
    pc = "standalone_done" =>
        (standalone <=>
            \A i \in 1..startByte :
                (\A j \in i..startByte : sourceContent[j] # "\n") => IsSpace(sourceContent[i]))

\* a comment behind a space and a tab on the second line, the first line
\* holding code
C30_Witness ==
    /\ pc = "standalone_done"
    /\ sourceContent = <<"a", "\n", " ", "\t">>
    /\ startByte = 4
    /\ standalone

----------------------------------------------------------------------------
(* The error of MergeSplitTokens *)

\* C31 (no error): on every token list, sorted or not, with or without
\* inverted spans, MergeSplitTokens returns no error: whenever the loop goes
\* on to findNextSplit a token is still to be activated or is active, so
\* findNextSplit never reaches its "Should not hit" error.
C31_NoError ==
    /\ ~splitErr
    /\ (pc = "split_loop" /\ ~LoopExit(tokens, SplitNow)) =>
          /\ index < Len(tokens) \/ Len(activeTokens) > 0
          /\ ~findNextSplit(tokens, index, activeTokens).err

\* a finished run without error on an unsorted list with an inverted span
\* that returned segments
C31_Witness ==
    /\ pc = "split_done"
    /\ ~splitErr
    /\ Len(tokens) = 3
    /\ ~IsSorted(tokens)
    /\ HasInverted(tokens)
    /\ Len(result) >= 2

----------------------------------------------------------------------------
(* The comments and the cursor of GenerateMDX *)

\* the prose pieces of the output, in order
ProsePieces == SelectSeq(sb, LAMBDA piece : piece.kind = "prose")

\* C32 (each comment once): at the end of a pipeline run, with sorted,
\* non-overlapping comments inside the buffer and segments made by
\* MergeSplitTokens from valid tokens inside the buffer, the output holds one
\* prose piece per comment, in list order, each with its comment's content.
C32_EachCommentOnce ==
    MDXDone => ProsePieces = [i \in 1..Len(comments) |-> Prose(comments[i].Content)]

\* every segment and every comment has start <= end
SpansValid ==
    /\ \A i \in 1..Len(segments) : Compare(segments[i].Span.Start, segments[i].Span.End) <= 0
    /\ \A i \in 1..Len(comments) : Compare(comments[i].Span.Start, comments[i].Span.End) <= 0

\* the characters written as code so far, literal and token runs together
CodeText ==
    Flatten([k \in 1..Len(sb) |->
                IF sb[k].kind \in {"literal", "token"} THEN sb[k].text ELSE <<>>])

\* the cursor does not move backwards: no step of the loop, and no part of a
\* step, ends before the position it started from
CursorMonotone ==
    /\ [][pc = "mdx_loop" => Compare(currentPos, currentPos') <= 0]_vars
    /\ [](\A k \in 1..Len(hist) : Compare(hist[k].from, hist[k].to) <= 0)

\* C33 (the cursor moves forward only): when every segment and every comment
\* has start <= end, the cursor of GenerateMDX never moves backwards, in the
\* gap, comment, token and forced steps alike, and no character of the
\* buffer is written twice.
C33_CursorForward ==
    /\ CursorMonotone
    /\ [](SpansValid =>
             \A i, j \in 1..Len(CodeText) :
                 (i # j /\ CodeText[i] # "\n") => CodeText[i] # CodeText[j])

\* C34 (no empty code block): every CodeWrapperStart in the output of
\* GenerateMDX is followed at once by a run, a literal run with text or the
\* run of a token, so no code block is closed empty; and no literal run is
\* empty.
C34_NoEmptyCodeBlock ==
    \A k \in 1..Len(sb) :
        /\ sb[k] = WrapperStart =>
              /\ k < Len(sb)
              /\ sb[k + 1].kind \in {"literal", "token"}
        /\ sb[k].kind = "literal" => sb[k].text # <<>>

\* a gap outside a code block came out empty and opened nothing, and a code
\* block was written later in the same run
C34_Witness ==
    /\ MDXDone
    /\ \E k \in 1..Len(hist) :
          /\ hist[k].kind = "gap" /\ hist[k].text = <<>> /\ ~hist[k].open
          /\ hist[k].from # hist[k].to
    /\ \E k \in 1..Len(sb) : sb[k] = WrapperStart

----------------------------------------------------------------------------
(* getSourceFromSpan over adjoining spans *)

\* the positions of the buffer between two of its positions, ends included
Between(lines, a, c) ==
    {b \in {Pos(l, ch) : l \in 0..Len(lines) - 1, ch \in 0..MaxExtLen} :
        InBuffer(lines, b) /\ Compare(a, b) <= 0 /\ Compare(b, c) <= 0}

\* C35 (additivity): for positions a <= b <= c inside the buffer, the text of
\* the span (a, b) followed by the text of the span (b, c) is the text of
\* the span (a, c).
C35_Additive ==
    (/\ ExtDone
     /\ InBuffer(sourceLines, extSpan.Start)
     /\ InBuffer(sourceLines, extSpan.End)
     /\ Compare(extSpan.Start, extSpan.End) <= 0) =>
        \A b \in Between(sourceLines, extSpan.Start, extSpan.End) :
            extText = getSourceFromSpan(sourceLines, Range(extSpan.Start, b))
                      \o getSourceFromSpan(sourceLines, Range(b, extSpan.End))

\* a span over three lines has been read; it can be cut inside its middle
\* line
C35_Witness ==
    /\ ExtDone
    /\ InBuffer(sourceLines, extSpan.Start)
    /\ InBuffer(sourceLines, extSpan.End)
    /\ extSpan.Start = Pos(0, 1)
    /\ extSpan.End = Pos(2, 1)
    /\ Pos(1, 1) \in Between(sourceLines, extSpan.Start, extSpan.End)
    /\ Len(extText) >= 5

----------------------------------------------------------------------------
(* The analyzer goroutines of main *)

\* wg.Wait has returned
AfterWait == pc \notin {"go_scip", "go_highlight", "go_comment", "wait"}

\* the analyzers whose analysis returned an error or panicked
Failed == {a \in Analyzers : outcome[a] \in {"err", "panic"}}

\* the step is a step of the goroutine of analyzer a and of no other
StepOf(a) == goPc'[a] # goPc[a] /\ \A b \in Analyzers \ {a} : goPc'[b] = goPc[b]

\* C36 (no lost error, one writer per result): under every interleaving of
\* the analyzer goroutines, once wg.Wait has returned errs holds exactly one
\* entry for each analyzer that returned an error or panicked and nothing
\* else; and scipTokens, highlightTokens and commentTokens are each written
\* by the goroutine of their own analyzer only.
C36_ErrsComplete ==
    /\ [](AfterWait =>
             /\ Len(errs) = Cardinality(Failed)
             /\ \A a \in Failed : \E i \in 1..Len(errs) : errs[i] = a)
    /\ [][/\ scipTokens' # scipTokens => StepOf("scip")
          /\ highlightTokens' # highlightTokens => StepOf("highlight")
          /\ commentTokens' # commentTokens => StepOf("comment")]_vars

\* all three analyses failed and the last analyzer started was the first to
\* append its error
C36_Witness ==
    /\ pc = "exit_1"
    /\ Failed = Analyzers
    /\ errs = <<"comment", "scip", "highlight">>

\* C37 (merge order): the list handed to sorting and to MergeSplitTokens is
\* the result of the SCIP analysis followed by the result of the
\* highlighting analysis, whatever the order in which the goroutines
\* finished.
C37_MergeOrder ==
    pc = "sort" =>
        /\ tokens = scipTokens \o highlightTokens
        /\ \E s \in ScipResults, h \in HighlightResults : tokens = s \o h

\* both analyses returned a token, the highlighting goroutine returned
\* before the SCIP goroutine, and the lists have been merged
C37_Witness ==
    /\ pc = "sort"
    /\ Len(tokens) = 2
    /\ \E i, j \in 1..Len(doneOrder) :
          i < j /\ doneOrder[i] = "highlight" /\ doneOrder[j] = "scip"

----------------------------------------------------------------------------
(* The wake-up of the goroutine of WaitForIndexing *)

\* C38 (no lost wake-up): under every interleaving of the calls of
\* handleProgress with WaitForIndexing, if activeWork becomes empty and stays
\* empty, the goroutine started by WaitForIndexing closes done; done is
\* closed, and nil returned, only after the goroutine found activeWork empty
\* while it held the mutex.
C38_NoLostWakeup ==
    /\ <>[](activeWork = {}) => <>done
    /\ [](done => sawEmpty)
    /\ [](lspRet = "nil" => (done /\ sawEmpty))
    /\ [](waiterPc \in {"loop", "unlock"} <=> lspMu = "waiter")

\* WaitForIndexing has returned nil after the goroutine had been suspended
\* in Wait and woken by a Broadcast
C38_Witness ==
    /\ lspRet = "nil"
    /\ wasWoken
    /\ waiterPc = "terminated"
    /\ activeWork = {}

\* C39 (no goroutine left behind): after WaitForIndexing has returned, by
\* any of its three paths, the goroutine it started has terminated or
\* terminates later.
C39_NoGoroutineLeft == (lspRet # "none") ~> (waiterPc = "terminated")

====
